---- MODULE Spec2Model ----
(***************************************************************************)
(* Lineage traversal engine of the data-product lineage viewer.            *)
(*                                                                         *)
(* Port level:   buildLineageMaps, findInternalRelatedPorts,               *)
(*               findUpstreamLineage, findDownstreamLineage,               *)
(*               findCompleteLineage            (utils/layoutUtils.js)     *)
(* Column level: buildColumnLineageMaps, findUpstreamColumnLineage,        *)
(*               findDownstreamColumnLineage, findCompleteColumnLineage    *)
(*                                              (utils/columnLineageUtils) *)
(*                                                                         *)
(* The recursive traversals are unfolded into an explicit call stack: one  *)
(* step of the model is one invocation of traverseUpstream /               *)
(* traverseDownstream made from the forEach loop of the frame on top of    *)
(* the stack, or the return of a frame whose loops are exhausted.          *)
(***************************************************************************)
EXTENDS Integers, Sequences, FiniteSets, TLC

VARIABLES
    nodes,                \* ReactFlowNode<DataProductNodeData>[] given to the engine
    relationships,        \* Relationship[] given to the engine
    allPorts,             \* AllPorts {selectedPort, upstreamPorts, downstreamPorts}
    columnRelationships,  \* ColumnRelationship[]
    call,                 \* the activation record of the top-level call in progress
    concurrent,           \* the activation record of a second top-level call, begun
                          \* before the first has returned (rapid re-selection)
    flowCanvas,           \* the state of the FlowCanvas component
    columnCanvas          \* the state of the ColumnLineageCanvas component

vars == <<nodes, relationships, allPorts, columnRelationships, call, concurrent,
         flowCanvas, columnCanvas>>

(***************************************************************************)
(* Bounds of the explored inputs.                                          *)
(***************************************************************************)
MaxRels == 2        \* relationships in the relationship list
MaxRelated == 2     \* related-port declarations in the node list
MaxColRels == 3     \* column relationships in the column relationship list

(***************************************************************************)
(* JavaScript values.                                                      *)
(***************************************************************************)
\* null / undefined passed as an identifier
Null == "<null>"

\* !id : null, undefined and the empty string are falsy
IsFalsy(id) == id = Null \/ id = ""

\* the elements of a sequence
Range(s) == {s[i] : i \in DOMAIN s}

\* new Set(array) / Set.add in a loop: insertion order, duplicates dropped
RECURSIVE Dedup(_)
Dedup(s) ==
    IF s = <<>> THEN <<>>
    ELSE LET rest == Dedup(SubSeq(s, 1, Len(s) - 1))
             last == s[Len(s)]
         IN IF last \in Range(rest) THEN rest ELSE Append(rest, last)

\* Array.prototype.find(p => p.id === id): index of the first match, 0 if none
RECURSIVE FindIndexFrom(_, _, _)
FindIndexFrom(s, id, i) ==
    IF i > Len(s) THEN 0
    ELSE IF s[i].id = id THEN i
         ELSE FindIndexFrom(s, id, i + 1)

FindIndex(s, id) == FindIndexFrom(s, id, 1)

\* new Map()
EmptyMap == [k \in {} |-> k]

\* Map.prototype.set(k, v)
MapSet(m, k, v) == [x \in (DOMAIN m) \cup {k} |-> IF x = k THEN v ELSE m[x]]

\* Map.prototype.has(k)
MapHas(m, k) == k \in DOMAIN m

(***************************************************************************)
(* Data model (types/index.ts).                                            *)
(***************************************************************************)
\* Port {id, label, relatedPorts}; the label is display text and is left out
Port(id, related) == [id |-> id, relatedPorts |-> related]

\* ReactFlowNode<DataProductNodeData> {id, data: {inputs, outputs}}
Node(id, inputs, outputs) ==
    [id |-> id, data |-> [inputs |-> inputs, outputs |-> outputs]]

\* PortRelationship
PortRel(id, sourceNode, sourcePort, targetNode, targetPort) ==
    [id |-> id, type |-> "port", sourceNode |-> sourceNode, sourcePort |-> sourcePort,
     targetNode |-> targetNode, targetPort |-> targetPort]

\* DirectRelationship
DirectRel(id, sourceNode, targetNode) ==
    [id |-> id, type |-> "direct", sourceNode |-> sourceNode, targetNode |-> targetNode]

\* ColumnPort {portId, nodeId, columns}; Column {id}; labels and column
\* attributes (name, dataType, ...) are display text and are left out
ColumnPort(portId, nodeId, columnIds) ==
    [portId |-> portId, nodeId |-> nodeId,
     columns |-> [i \in DOMAIN columnIds |-> [id |-> columnIds[i]]]]

\* ColumnRelationship {sourceColumn, targetColumn}: no id in the data
ColRel(sourceColumn, targetColumn) ==
    [sourceColumn |-> sourceColumn, targetColumn |-> targetColumn]

(***************************************************************************)
(* The inputs explored.  Three data products A, B, C; the relationship     *)
(* list is a sub-list of RelCandidates and the related-port declarations   *)
(* a sub-list of RelatedCandidates.  Besides the well-formed chain         *)
(* A.out1 -> B.in1, B.out1 -> C.in1 the candidates hold a relationship     *)
(* closing a cycle, relationships and declarations naming the undeclared   *)
(* port X.ghost, a relationship leaving an input port, related-port        *)
(* declarations across nodes and direct relationships, two of them naming  *)
(* the data product Z that is not in the node list.                        *)
(***************************************************************************)
RelCandidates ==
    << PortRel("r1", "A", "A.out1", "B", "B.in1"),
       PortRel("r2", "B", "B.out1", "C", "C.in1"),
       PortRel("r3", "B", "B.out1", "A", "A.in1"),
       PortRel("r4", "X", "X.ghost", "B", "B.in1"),
       PortRel("r5", "A", "A.out1", "X", "X.ghost"),
       PortRel("r6", "B", "B.in1", "C", "C.in1"),
       DirectRel("d1", "A", "B"),
       DirectRel("d2", "B", "Z"),
       DirectRel("d3", "Z", "C") >>

\* <<declaring port, related port id>>
RelatedCandidates ==
    << <<"A.out1", "A.in1">>,
       <<"B.out1", "B.in1">>,
       <<"B.in1", "B.out1">>,
       <<"A.out1", "B.out1">>,
       <<"B.out1", "A.out1">>,
       <<"A.out1", "B.in1">>,
       <<"B.in1", "X.ghost">> >>

\* the sub-list of s at the positions in sel
SubList(s, sel) ==
    LET F[i \in 0..Len(s)] ==
            IF i = 0 THEN <<>>
            ELSE IF i \in sel THEN Append(F[i - 1], s[i]) ELSE F[i - 1]
    IN F[Len(s)]

\* the sets of at most n positions of s
Selections(s, n) == {sel \in SUBSET (DOMAIN s) : Cardinality(sel) <= n}

\* the relatedPorts array of port id under the declarations decls
RelatedOf(id, decls) ==
    LET mine == SelectSeq(decls, LAMBDA d : d[1] = id)
    IN [i \in DOMAIN mine |-> mine[i][2]]

NodesWith(decls) ==
    << Node("A", <<Port("A.in1", RelatedOf("A.in1", decls))>>,
                 <<Port("A.out1", RelatedOf("A.out1", decls))>>),
       Node("B", <<Port("B.in1", RelatedOf("B.in1", decls))>>,
                 <<Port("B.out1", RelatedOf("B.out1", decls))>>),
       Node("C", <<Port("C.in1", RelatedOf("C.in1", decls))>>, <<>>) >>

\* the A -> B -> C chain with no related-port declarations
ChainNodes == NodesWith(<<>>)
ChainRelationships == SubList(RelCandidates, {1, 2})

\* port ids a selection can carry: the declared ports, an undeclared one,
\* and no selection
DeclaredPortIds == {"A.in1", "A.out1", "B.in1", "B.out1", "C.in1"}
GhostPort == "X.ghost"
StartPortIds == DeclaredPortIds \cup {GhostPort, Null}

(***************************************************************************)
(* Column inputs: the selected port S (columns c1, c3), the upstream port  *)
(* U (c0) and the downstream port D (c2), D being supplied or not; the     *)
(* column relationship list is a sub-list of ColRelCandidates, which also  *)
(* name the column cx that belongs to no port.                             *)
(***************************************************************************)
ColRelCandidates ==
    << ColRel("c0", "c1"),
       ColRel("c1", "c2"),
       ColRel("c1", "cx"),
       ColRel("cx", "c2"),
       ColRel("c2", "c0"),
       ColRel("c3", "c1") >>

SelectedPort == ColumnPort("S", "B", <<"c1", "c3">>)
UpstreamPort == ColumnPort("U", "A", <<"c0">>)
DownstreamPort == ColumnPort("D", "C", <<"c2">>)

AllPortsWith(withDownstream) ==
    [selectedPort |-> SelectedPort,
     upstreamPorts |-> <<UpstreamPort>>,
     downstreamPorts |-> IF withDownstream THEN <<DownstreamPort>> ELSE <<>>]

\* the column scenario: c1 -> c2 from the selected to a downstream port
ScenarioAllPorts == AllPortsWith(TRUE)
ScenarioColumnRelationships == SubList(ColRelCandidates, {2})

GhostColumn == "cx"
StartColumnIds == {"c0", "c1", "c2", "c3", GhostColumn, Null}

(***************************************************************************)
(* Adjacency Map Builder: buildLineageMaps.                                *)
(***************************************************************************)
\* SetPortsOf that keeps the first entry written for a port id
RECURSIVE SetPortsOf_FirstWriteWins(_, _, _, _)
SetPortsOf_FirstWriteWins(portToNode, ports, nodeId, type) ==
    IF ports = <<>> THEN portToNode
    ELSE SetPortsOf_FirstWriteWins(
             IF MapHas(portToNode, Head(ports).id) THEN portToNode
             ELSE MapSet(portToNode, Head(ports).id, [nodeId |-> nodeId, type |-> type]),
             Tail(ports), nodeId, type)

\* ports.forEach(port => portToNode.set(port.id, {nodeId, type}))
RECURSIVE SetPortsOf(_, _, _, _)
SetPortsOf(portToNode, ports, nodeId, type) ==
    IF ports = <<>> THEN portToNode
    ELSE SetPortsOf(MapSet(portToNode, Head(ports).id, [nodeId |-> nodeId, type |-> type]),
                    Tail(ports), nodeId, type)

\* nodes.forEach: nodeData.set(node.id, node.data), then the node's inputs,
\* then its outputs, into portToNode
RECURSIVE BuildNodeMaps(_, _)
BuildNodeMaps(acc, ns) ==
    IF ns = <<>> THEN acc
    ELSE LET node == Head(ns)
             withInputs == SetPortsOf(acc.portToNode, node.data.inputs, node.id, "input")
             withOutputs == SetPortsOf(withInputs, node.data.outputs, node.id, "output")
         IN BuildNodeMaps([nodeData |-> MapSet(acc.nodeData, node.id, node.data),
                           portToNode |-> withOutputs],
                          Tail(ns))

\* RegisterBoth that pushes the relationship under its first key only
RegisterBoth_SourceOnly(map, a, b, rel) ==
    LET m1 == IF MapHas(map, a) THEN map ELSE MapSet(map, a, <<>>)
        m2 == IF MapHas(m1, b) THEN m1 ELSE MapSet(m1, b, <<>>)
    IN [m2 EXCEPT ![a] = Append(@, rel)]

\* if (!map.has(a)) map.set(a, []); if (!map.has(b)) map.set(b, []);
\* map.get(a).push(rel); map.get(b).push(rel)
RegisterBoth(map, a, b, rel) ==
    LET m1 == IF MapHas(map, a) THEN map ELSE MapSet(map, a, <<>>)
        m2 == IF MapHas(m1, b) THEN m1 ELSE MapSet(m1, b, <<>>)
        m3 == [m2 EXCEPT ![a] = Append(@, rel)]
    IN [m3 EXCEPT ![b] = Append(@, rel)]

\* BuildEdgeMaps that keeps one map: direct relationships go into portToEdges
\* under their node ids
RECURSIVE BuildEdgeMaps_DirectIntoPortToEdges(_, _)
BuildEdgeMaps_DirectIntoPortToEdges(acc, rels) ==
    IF rels = <<>> THEN acc
    ELSE LET rel == Head(rels)
             portToEdges ==
                 IF rel.type = "port"
                 THEN RegisterBoth(acc.portToEdges, rel.sourcePort, rel.targetPort, rel)
                 ELSE IF rel.type = "direct"
                      THEN RegisterBoth(acc.portToEdges, rel.sourceNode, rel.targetNode, rel)
                      ELSE acc.portToEdges
         IN BuildEdgeMaps_DirectIntoPortToEdges(
                [portToEdges |-> portToEdges, nodeToEdges |-> acc.nodeToEdges], Tail(rels))

\* relationships.forEach: port relationships into portToEdges under both
\* ports, direct relationships into nodeToEdges under both nodes
RECURSIVE BuildEdgeMaps(_, _)
BuildEdgeMaps(acc, rels) ==
    IF rels = <<>> THEN acc
    ELSE LET rel == Head(rels)
             portToEdges ==
                 IF rel.type = "port"
                 THEN RegisterBoth(acc.portToEdges, rel.sourcePort, rel.targetPort, rel)
                 ELSE acc.portToEdges
             nodeToEdges ==
                 IF rel.type = "direct"
                 THEN RegisterBoth(acc.nodeToEdges, rel.sourceNode, rel.targetNode, rel)
                 ELSE acc.nodeToEdges
         IN BuildEdgeMaps([portToEdges |-> portToEdges, nodeToEdges |-> nodeToEdges],
                          Tail(rels))

buildLineageMaps(rels, ns) ==
    LET nodeMaps == BuildNodeMaps([nodeData |-> EmptyMap, portToNode |-> EmptyMap], ns)
        edgeMaps == BuildEdgeMaps([portToEdges |-> EmptyMap, nodeToEdges |-> EmptyMap], rels)
    IN [portToEdges |-> edgeMaps.portToEdges,
        nodeToEdges |-> edgeMaps.nodeToEdges,
        portToNode |-> nodeMaps.portToNode,
        nodeData |-> nodeMaps.nodeData]

\* the maps of a call that builds none
NoMaps == EmptyMap

(***************************************************************************)
(* findInternalRelatedPorts: the related ports the port declares, looked   *)
(* up in the node's inputs first and in its outputs otherwise, as a Set in *)
(* insertion order.                                                        *)
(***************************************************************************)
findInternalRelatedPorts(portId, nodeId, nodeData) ==
    IF ~MapHas(nodeData, nodeId) THEN <<>>
    ELSE LET data == nodeData[nodeId]
             i == FindIndex(data.inputs, portId)
             o == FindIndex(data.outputs, portId)
         IN IF i # 0 THEN Dedup(data.inputs[i].relatedPorts)
            ELSE IF o # 0 THEN Dedup(data.outputs[o].relatedPorts)
            ELSE <<>>

\* `edge-${edge.id}`
EdgeId(edge) == "edge-" \o edge.id

\* map.get(key) || []
GetOrEmpty(map, key) == IF MapHas(map, key) THEN map[key] ELSE <<>>

(***************************************************************************)
(* Activation record of a top-level call.                                  *)
(*   fn, pc       the function called and the traversal it is in           *)
(*   startId      its first argument                                       *)
(*   maps         the adjacency maps it built                              *)
(*   stack        the frames of the recursion in progress: the element a   *)
(*                frame visits and what its forEach loops have left        *)
(*   visited, lineageNodes, lineageEdges, lineagePorts, lineageColumns     *)
(*                the Sets of the traversal in progress                    *)
(*   upstream, downstream, result                                          *)
(*                what the finished traversals / the call returned         *)
(*   expanded     history: the elements that passed the visited check of   *)
(*                the traversal in progress, in order                      *)
(*   steps        history: invocations and returns of the traversal in     *)
(*                progress                                                 *)
(***************************************************************************)
EmptySets == [nodes |-> {}, edges |-> {}, ports |-> {}]
EmptyColumnSets == [columns |-> {}, edges |-> {}, ports |-> {}]

IdleCall ==
    [fn |-> "none", pc |-> "idle", startId |-> Null, maps |-> NoMaps,
     stack |-> <<>>, visited |-> {},
     lineageNodes |-> {}, lineageEdges |-> {}, lineagePorts |-> {}, lineageColumns |-> {},
     upstream |-> EmptySets, downstream |-> EmptySets, result |-> EmptySets,
     expanded |-> <<>>, steps |-> 0]

\* const visited = new Set(); const lineageNodes = new Set(); ...
FreshSets(c) ==
    [c EXCEPT !.stack = <<>>, !.visited = {},
              !.lineageNodes = {}, !.lineageEdges = {}, !.lineagePorts = {},
              !.lineageColumns = {}, !.expanded = <<>>, !.steps = 0]

Top(c) == c.stack[Len(c.stack)]

\* traverseUpstream without the visited test
traverseUpstream_NoVisitedTest(c, currentPortId) ==
    LET c1 == [c EXCEPT !.visited = @ \cup {currentPortId},
                        !.lineagePorts = @ \cup {currentPortId},
                        !.expanded = Append(@, currentPortId)]
    IN IF ~MapHas(c.maps.portToNode, currentPortId) THEN c1
       ELSE LET portInfo == c.maps.portToNode[currentPortId]
                related == IF portInfo.type = "output"
                           THEN findInternalRelatedPorts(currentPortId, portInfo.nodeId,
                                                         c.maps.nodeData)
                           ELSE <<>>
                edges == IF portInfo.type = "input"
                         THEN GetOrEmpty(c.maps.portToEdges, currentPortId)
                         ELSE <<>>
            IN [c1 EXCEPT !.lineageNodes = @ \cup {portInfo.nodeId},
                          !.stack = Append(@, [id |-> currentPortId,
                                               related |-> related,
                                               edges |-> edges])]

\* traverseUpstream without the tests of the port's type: related ports and
\* relationships are both scanned at every port
traverseUpstream_NoTypeTest(c, currentPortId) ==
    IF currentPortId \in c.visited THEN c
    ELSE LET c1 == [c EXCEPT !.visited = @ \cup {currentPortId},
                             !.lineagePorts = @ \cup {currentPortId},
                             !.expanded = Append(@, currentPortId)]
         IN IF ~MapHas(c.maps.portToNode, currentPortId) THEN c1
            ELSE LET portInfo == c.maps.portToNode[currentPortId]
                 IN [c1 EXCEPT !.lineageNodes = @ \cup {portInfo.nodeId},
                               !.stack = Append(@,
                                   [id |-> currentPortId,
                                    related |-> findInternalRelatedPorts(
                                        currentPortId, portInfo.nodeId, c.maps.nodeData),
                                    edges |-> GetOrEmpty(c.maps.portToEdges,
                                                         currentPortId)])]

(***************************************************************************)
(* findUpstreamLineage.traverseUpstream: one invocation, up to its first   *)
(* forEach.  A visited port returns at once; an unvisited one is marked    *)
(* and added to the port set; without an owning node the invocation        *)
(* returns; otherwise the node is added and a frame holds the loops the    *)
(* port's type selects.                                                    *)
(***************************************************************************)
traverseUpstream(c, currentPortId) ==
    IF currentPortId \in c.visited THEN c
    ELSE LET c1 == [c EXCEPT !.visited = @ \cup {currentPortId},
                             !.lineagePorts = @ \cup {currentPortId},
                             !.expanded = Append(@, currentPortId)]
         IN IF ~MapHas(c.maps.portToNode, currentPortId) THEN c1
            ELSE LET portInfo == c.maps.portToNode[currentPortId]
                     related == IF portInfo.type = "output"
                                THEN findInternalRelatedPorts(currentPortId, portInfo.nodeId,
                                                              c.maps.nodeData)
                                ELSE <<>>
                     edges == IF portInfo.type = "input"
                              THEN GetOrEmpty(c.maps.portToEdges, currentPortId)
                              ELSE <<>>
                 IN [c1 EXCEPT !.lineageNodes = @ \cup {portInfo.nodeId},
                               !.stack = Append(@, [id |-> currentPortId,
                                                    related |-> related,
                                                    edges |-> edges])]

\* relatedPorts.forEach(relatedPortId => { lineagePorts.add(relatedPortId);
\*                                         traverseUpstream(relatedPortId) })
upstreamRelated(c) ==
    LET n == Len(c.stack)
        relatedPortId == Head(c.stack[n].related)
        c1 == [c EXCEPT !.stack[n].related = Tail(@),
                        !.lineagePorts = @ \cup {relatedPortId},
                        !.steps = @ + 1]
    IN traverseUpstream(c1, relatedPortId)

\* upstreamEdge that also adds the relationship's source node to the node set
upstreamEdge_AddsSourceNode(c) ==
    LET n == Len(c.stack)
        edge == Head(c.stack[n].edges)
        c1 == [c EXCEPT !.stack[n].edges = Tail(@), !.steps = @ + 1]
    IN IF edge.type = "port" /\ edge.targetPort = c.stack[n].id
       THEN traverseUpstream([c1 EXCEPT !.lineageEdges = @ \cup {EdgeId(edge)},
                                        !.lineageNodes = @ \cup {edge.sourceNode}],
                             edge.sourcePort)
       ELSE c1

\* upstreamEdge that skips a relationship whose source port has no owning node
upstreamEdge_DeclaredSourceOnly(c) ==
    LET n == Len(c.stack)
        edge == Head(c.stack[n].edges)
        c1 == [c EXCEPT !.stack[n].edges = Tail(@), !.steps = @ + 1]
    IN IF /\ edge.type = "port"
          /\ edge.targetPort = c.stack[n].id
          /\ MapHas(c.maps.portToNode, edge.sourcePort)
       THEN traverseUpstream([c1 EXCEPT !.lineageEdges = @ \cup {EdgeId(edge)}],
                             edge.sourcePort)
       ELSE c1

\* upstreamEdge that recurses into the relationship's target port
upstreamEdge_IntoTarget(c) ==
    LET n == Len(c.stack)
        edge == Head(c.stack[n].edges)
        c1 == [c EXCEPT !.stack[n].edges = Tail(@), !.steps = @ + 1]
    IN IF edge.type = "port" /\ edge.targetPort = c.stack[n].id
       THEN traverseUpstream([c1 EXCEPT !.lineageEdges = @ \cup {EdgeId(edge)}],
                             edge.targetPort)
       ELSE c1

\* edges.forEach(edge => { if (edge.type === 'port' && edge.targetPort === currentPortId)
\*     { lineageEdges.add(`edge-${edge.id}`); traverseUpstream(edge.sourcePort) } })
upstreamEdge(c) ==
    LET n == Len(c.stack)
        edge == Head(c.stack[n].edges)
        c1 == [c EXCEPT !.stack[n].edges = Tail(@), !.steps = @ + 1]
    IN IF edge.type = "port" /\ edge.targetPort = c.stack[n].id
       THEN traverseUpstream([c1 EXCEPT !.lineageEdges = @ \cup {EdgeId(edge)}],
                             edge.sourcePort)
       ELSE c1

\* traverseDownstream with the roles of the two port types exchanged
traverseDownstream_TypesSwapped(c, currentPortId) ==
    IF currentPortId \in c.visited THEN c
    ELSE LET c1 == [c EXCEPT !.visited = @ \cup {currentPortId},
                             !.lineagePorts = @ \cup {currentPortId},
                             !.expanded = Append(@, currentPortId)]
         IN IF ~MapHas(c.maps.portToNode, currentPortId) THEN c1
            ELSE LET portInfo == c.maps.portToNode[currentPortId]
                     related == IF portInfo.type = "output"
                                THEN findInternalRelatedPorts(currentPortId, portInfo.nodeId,
                                                              c.maps.nodeData)
                                ELSE <<>>
                     edges == IF portInfo.type = "input"
                              THEN GetOrEmpty(c.maps.portToEdges, currentPortId)
                              ELSE <<>>
                 IN [c1 EXCEPT !.lineageNodes = @ \cup {portInfo.nodeId},
                               !.stack = Append(@, [id |-> currentPortId,
                                                    related |-> related,
                                                    edges |-> edges])]

\* traverseDownstream without the tests of the port's type
traverseDownstream_NoTypeTest(c, currentPortId) ==
    IF currentPortId \in c.visited THEN c
    ELSE LET c1 == [c EXCEPT !.visited = @ \cup {currentPortId},
                             !.lineagePorts = @ \cup {currentPortId},
                             !.expanded = Append(@, currentPortId)]
         IN IF ~MapHas(c.maps.portToNode, currentPortId) THEN c1
            ELSE LET portInfo == c.maps.portToNode[currentPortId]
                 IN [c1 EXCEPT !.lineageNodes = @ \cup {portInfo.nodeId},
                               !.stack = Append(@,
                                   [id |-> currentPortId,
                                    related |-> findInternalRelatedPorts(
                                        currentPortId, portInfo.nodeId, c.maps.nodeData),
                                    edges |-> GetOrEmpty(c.maps.portToEdges,
                                                         currentPortId)])]

(***************************************************************************)
(* findDownstreamLineage.traverseDownstream, likewise.                     *)
(***************************************************************************)
traverseDownstream(c, currentPortId) ==
    IF currentPortId \in c.visited THEN c
    ELSE LET c1 == [c EXCEPT !.visited = @ \cup {currentPortId},
                             !.lineagePorts = @ \cup {currentPortId},
                             !.expanded = Append(@, currentPortId)]
         IN IF ~MapHas(c.maps.portToNode, currentPortId) THEN c1
            ELSE LET portInfo == c.maps.portToNode[currentPortId]
                     related == IF portInfo.type = "input"
                                THEN findInternalRelatedPorts(currentPortId, portInfo.nodeId,
                                                              c.maps.nodeData)
                                ELSE <<>>
                     edges == IF portInfo.type = "output"
                              THEN GetOrEmpty(c.maps.portToEdges, currentPortId)
                              ELSE <<>>
                 IN [c1 EXCEPT !.lineageNodes = @ \cup {portInfo.nodeId},
                               !.stack = Append(@, [id |-> currentPortId,
                                                    related |-> related,
                                                    edges |-> edges])]

downstreamRelated(c) ==
    LET n == Len(c.stack)
        relatedPortId == Head(c.stack[n].related)
        c1 == [c EXCEPT !.stack[n].related = Tail(@),
                        !.lineagePorts = @ \cup {relatedPortId},
                        !.steps = @ + 1]
    IN traverseDownstream(c1, relatedPortId)

\* downstreamEdge that also adds the relationship's target node
downstreamEdge_AddsTargetNode(c) ==
    LET n == Len(c.stack)
        edge == Head(c.stack[n].edges)
        c1 == [c EXCEPT !.stack[n].edges = Tail(@), !.steps = @ + 1]
    IN IF edge.type = "port" /\ edge.sourcePort = c.stack[n].id
       THEN traverseDownstream([c1 EXCEPT !.lineageEdges = @ \cup {EdgeId(edge)},
                                          !.lineageNodes = @ \cup {edge.targetNode}],
                               edge.targetPort)
       ELSE c1

\* downstreamEdge that adds the edge and does not go on to the target port
downstreamEdge_EdgeOnly(c) ==
    LET n == Len(c.stack)
        edge == Head(c.stack[n].edges)
        c1 == [c EXCEPT !.stack[n].edges = Tail(@), !.steps = @ + 1]
    IN IF edge.type = "port" /\ edge.sourcePort = c.stack[n].id
       THEN [c1 EXCEPT !.lineageEdges = @ \cup {EdgeId(edge)}]
       ELSE c1

downstreamEdge(c) ==
    LET n == Len(c.stack)
        edge == Head(c.stack[n].edges)
        c1 == [c EXCEPT !.stack[n].edges = Tail(@), !.steps = @ + 1]
    IN IF edge.type = "port" /\ edge.sourcePort = c.stack[n].id
       THEN traverseDownstream([c1 EXCEPT !.lineageEdges = @ \cup {EdgeId(edge)}],
                               edge.targetPort)
       ELSE c1

\* the end of an invocation's body: back to the caller's loop
returnFrame(c) ==
    [c EXCEPT !.stack = SubSeq(@, 1, Len(@) - 1), !.steps = @ + 1]

\* return { nodes: lineageNodes, edges: lineageEdges, ports: lineagePorts }
LineageResult(c) ==
    [nodes |-> c.lineageNodes, edges |-> c.lineageEdges, ports |-> c.lineagePorts]

\* findUpstreamLineage(portId, maps) up to the first forEach of traverseUpstream(portId)
findUpstreamLineage(c, portId) == traverseUpstream(FreshSets(c), portId)

\* findDownstreamLineage that returns empty sets for an input port
findDownstreamLineage_NothingForInputs(c, portId) ==
    IF MapHas(c.maps.portToNode, portId) /\ c.maps.portToNode[portId].type = "input"
    THEN FreshSets(c)
    ELSE traverseDownstream(FreshSets(c), portId)

\* findDownstreamLineage(portId, maps), likewise
findDownstreamLineage(c, portId) == traverseDownstream(FreshSets(c), portId)

(***************************************************************************)
(* Lineage Aggregator: findCompleteLineage.                                *)
(***************************************************************************)
EmptyComplete ==
    [nodes |-> {}, edges |-> {}, ports |-> {},
     upstream |-> EmptySets, downstream |-> EmptySets]

\* CombineLineage with the port set built from the node sets
CombineLineage_PortsFromNodes(upstream, downstream) ==
    [nodes |-> upstream.nodes \cup downstream.nodes,
     edges |-> upstream.edges \cup downstream.edges,
     ports |-> upstream.nodes \cup downstream.nodes,
     upstream |-> upstream,
     downstream |-> downstream]

\* CombineLineage with the two halves stored the wrong way round
CombineLineage_HalvesSwapped(upstream, downstream) ==
    [nodes |-> upstream.nodes \cup downstream.nodes,
     edges |-> upstream.edges \cup downstream.edges,
     ports |-> upstream.ports \cup downstream.ports,
     upstream |-> downstream,
     downstream |-> upstream]

\* new Set([...upstream.x, ...downstream.x]) for nodes, edges and ports
CombineLineage(upstream, downstream) ==
    [nodes |-> upstream.nodes \cup downstream.nodes,
     edges |-> upstream.edges \cup downstream.edges,
     ports |-> upstream.ports \cup downstream.ports,
     upstream |-> upstream,
     downstream |-> downstream]

\* findCompleteLineage(portId, relationships, nodes): the empty result for no
\* port id; otherwise the maps are built and findUpstreamLineage begins
findCompleteLineage(portId, rels, ns) ==
    LET c == [IdleCall EXCEPT !.fn = "findCompleteLineage", !.startId = portId]
    IN IF IsFalsy(portId)
       THEN [c EXCEPT !.pc = "done", !.result = EmptyComplete]
       ELSE [findUpstreamLineage([c EXCEPT !.maps = buildLineageMaps(rels, ns)], portId)
                EXCEPT !.pc = "upstream"]

\* findUpstreamLineage has returned: const downstream = findDownstreamLineage(portId, maps)
upstreamDone(c) ==
    [findDownstreamLineage([c EXCEPT !.upstream = LineageResult(c)], c.startId)
        EXCEPT !.pc = "downstream"]

\* findDownstreamLineage has returned: combine and return
downstreamDone(c) ==
    LET downstream == LineageResult(c)
    IN [c EXCEPT !.downstream = downstream,
                 !.result = CombineLineage(c.upstream, downstream),
                 !.pc = "done"]

(***************************************************************************)
(* findNodeLineage: flood fill over the relationship list.  A frame holds  *)
(* the relationships its forEach has left and whether the head             *)
(* relationship is past its first if (rel.sourceNode === currentNodeId).   *)
(***************************************************************************)
StartNodeIds == {"A", "B", "C", "Z", Null}

\* traverse that goes no further at a node the node list does not hold
traverse_StopAtUnknown(c, currentNodeId, rels) ==
    IF currentNodeId \in c.visited THEN c
    ELSE IF currentNodeId \notin {nodes[i].id : i \in DOMAIN nodes}
         THEN [c EXCEPT !.visited = @ \cup {currentNodeId},
                        !.expanded = Append(@, currentNodeId)]
         ELSE [c EXCEPT !.visited = @ \cup {currentNodeId},
                        !.expanded = Append(@, currentNodeId),
                        !.stack = Append(@, [id |-> currentNodeId, related |-> <<>>,
                                             edges |-> rels, second |-> FALSE])]

traverse(c, currentNodeId, rels) ==
    IF currentNodeId \in c.visited THEN c
    ELSE [c EXCEPT !.visited = @ \cup {currentNodeId},
                   !.expanded = Append(@, currentNodeId),
                   !.stack = Append(@, [id |-> currentNodeId, related |-> <<>>,
                                        edges |-> rels, second |-> FALSE])]

\* nodeRelationship without the test of the relationship's type
nodeRelationship_AnyType(c, rels) ==
    LET n == Len(c.stack)
        top == c.stack[n]
        rel == Head(top.edges)
        next == [c EXCEPT !.stack[n].edges = Tail(@), !.stack[n].second = FALSE,
                          !.steps = @ + 1]
        targetIf(c0) ==
            IF rel.targetNode = top.id
            THEN traverse([c0 EXCEPT !.lineageEdges = @ \cup {EdgeId(rel)},
                                     !.lineageNodes = @ \cup {rel.sourceNode}],
                          rel.sourceNode, rels)
            ELSE c0
    IN IF ~top.second /\ rel.sourceNode = top.id
       THEN traverse([c EXCEPT !.stack[n].second = TRUE,
                               !.lineageEdges = @ \cup {EdgeId(rel)},
                               !.lineageNodes = @ \cup {rel.targetNode},
                               !.steps = @ + 1],
                     rel.targetNode, rels)
       ELSE targetIf(next)

\* the body of relationships.forEach for the head relationship, up to and
\* including its next recursive call
nodeRelationship(c, rels) ==
    LET n == Len(c.stack)
        top == c.stack[n]
        rel == Head(top.edges)
        next == [c EXCEPT !.stack[n].edges = Tail(@), !.stack[n].second = FALSE,
                          !.steps = @ + 1]
        targetIf(c0) ==
            IF rel.targetNode = top.id
            THEN traverse([c0 EXCEPT !.lineageEdges = @ \cup {EdgeId(rel)},
                                     !.lineageNodes = @ \cup {rel.sourceNode}],
                          rel.sourceNode, rels)
            ELSE c0
    IN IF rel.type # "direct" THEN next
       ELSE IF ~top.second /\ rel.sourceNode = top.id
            THEN traverse([c EXCEPT !.stack[n].second = TRUE,
                                    !.lineageEdges = @ \cup {EdgeId(rel)},
                                    !.lineageNodes = @ \cup {rel.targetNode},
                                    !.steps = @ + 1],
                          rel.targetNode, rels)
            ELSE targetIf(next)

\* findNodeLineage without the test of the node id
findNodeLineage_NoGuard(nodeId, rels, ns) ==
    LET c == [IdleCall EXCEPT !.fn = "findNodeLineage", !.startId = nodeId]
    IN [traverse([c EXCEPT !.lineageNodes = {nodeId}], nodeId, rels)
           EXCEPT !.pc = "node"]

\* findNodeLineage(nodeId, relationships, _nodes)
findNodeLineage(nodeId, rels, ns) ==
    LET c == [IdleCall EXCEPT !.fn = "findNodeLineage", !.startId = nodeId]
    IN IF IsFalsy(nodeId)
       THEN [c EXCEPT !.pc = "done", !.result = [nodes |-> {}, edges |-> {}]]
       ELSE [traverse([c EXCEPT !.lineageNodes = {nodeId}], nodeId, rels)
                EXCEPT !.pc = "node"]

\* return { nodes: lineageNodes, edges: lineageEdges }
nodeDone(c) ==
    [c EXCEPT !.result = [nodes |-> c.lineageNodes, edges |-> c.lineageEdges],
              !.pc = "done"]

(***************************************************************************)
(* Column level: buildColumnLineageMaps.                                   *)
(***************************************************************************)
\* `col-edge-${index}`, index counted from 0
ColEdgeId(index) == "col-edge-" \o ToString(index)

\* SetColumnsOf that records the port's node id as the port id
RECURSIVE SetColumnsOf_NodeIdAsPortId(_, _, _)
SetColumnsOf_NodeIdAsPortId(columnToPort, columns, port) ==
    IF columns = <<>> THEN columnToPort
    ELSE SetColumnsOf_NodeIdAsPortId(MapSet(columnToPort, Head(columns).id,
                                            [portId |-> port.nodeId, nodeId |-> port.nodeId]),
                                     Tail(columns), port)

\* port.columns.forEach(column => columnToPort.set(column.id, {portId, nodeId}))
RECURSIVE SetColumnsOf(_, _, _)
SetColumnsOf(columnToPort, columns, port) ==
    IF columns = <<>> THEN columnToPort
    ELSE SetColumnsOf(MapSet(columnToPort, Head(columns).id,
                             [portId |-> port.portId, nodeId |-> port.nodeId]),
                      Tail(columns), port)

\* allPortsList.forEach: portData.set(port.portId, port), then its columns
RECURSIVE BuildPortMaps(_, _)
BuildPortMaps(acc, ports) ==
    IF ports = <<>> THEN acc
    ELSE LET port == Head(ports)
         IN BuildPortMaps([portData |-> MapSet(acc.portData, port.portId, port),
                           columnToPort |-> SetColumnsOf(acc.columnToPort, port.columns,
                                                         port)],
                          Tail(ports))

\* columnRelationships.forEach((rel, index) => ...): { id: edgeId, ...rel }
\* registered under source and target column
RECURSIVE BuildColumnEdges(_, _, _)
BuildColumnEdges(columnToEdges, rels, index) ==
    IF rels = <<>> THEN columnToEdges
    ELSE LET rel == Head(rels)
             edgeData == [id |-> ColEdgeId(index), sourceColumn |-> rel.sourceColumn,
                          targetColumn |-> rel.targetColumn]
         IN BuildColumnEdges(RegisterBoth(columnToEdges, rel.sourceColumn,
                                          rel.targetColumn, edgeData),
                             Tail(rels), index + 1)

\* AllPortsList that leaves the downstream ports out
AllPortsList_WithoutDownstream(ports) ==
    <<ports.selectedPort>> \o ports.upstreamPorts

\* [selectedPort, ...(upstreamPorts || []), ...(downstreamPorts || [])]
AllPortsList(ports) ==
    <<ports.selectedPort>> \o ports.upstreamPorts \o ports.downstreamPorts

\* buildColumnLineageMaps that numbers the relationships from 1
buildColumnLineageMaps_IndexFromOne(colRels, ports) ==
    LET portMaps == BuildPortMaps([portData |-> EmptyMap, columnToPort |-> EmptyMap],
                                  AllPortsList(ports))
    IN [columnToEdges |-> BuildColumnEdges(EmptyMap, colRels, 1),
        columnToPort |-> portMaps.columnToPort,
        portData |-> portMaps.portData]

buildColumnLineageMaps(colRels, ports) ==
    LET portMaps == BuildPortMaps([portData |-> EmptyMap, columnToPort |-> EmptyMap],
                                  AllPortsList(ports))
    IN [columnToEdges |-> BuildColumnEdges(EmptyMap, colRels, 0),
        columnToPort |-> portMaps.columnToPort,
        portData |-> portMaps.portData]

(***************************************************************************)
(* The column canvas (ColumnLineageCanvas): the edges it renders for the   *)
(* column relationships.  visibleColumns maps the ports that have reported *)
(* to the columns they show.                                               *)
(***************************************************************************)
\* the first of the ports that has the column, null if none has
getPortIdForColumn(columnId, ports) ==
    LET list == AllPortsList(ports)
        having == {k \in DOMAIN list :
                      \E j \in DOMAIN list[k].columns : list[k].columns[j].id = columnId}
    IN IF having = {} THEN Null
       ELSE list[CHOOSE k \in having : \A j \in having : k <= j].portId

\* visibleCols === undefined || visibleCols.includes(column)
IsVisible(visibleColumns, portId, columnId) ==
    ~MapHas(visibleColumns, portId) \/ columnId \in visibleColumns[portId]

\* columnRelationships.forEach((rel, index) => ...) from position index on
RECURSIVE BuildCanvasEdges(_, _, _, _, _)
BuildCanvasEdges(builtEdges, rels, index, ports, visibleColumns) ==
    IF rels = <<>> THEN builtEdges
    ELSE LET rel == Head(rels)
             sourceNodeId == getPortIdForColumn(rel.sourceColumn, ports)
             targetNodeId == getPortIdForColumn(rel.targetColumn, ports)
             edge == [id |-> ColEdgeId(index),
                      source |-> sourceNodeId, sourceHandle |-> rel.sourceColumn,
                      target |-> targetNodeId, targetHandle |-> rel.targetColumn]
             built ==
                 IF IsFalsy(sourceNodeId) \/ IsFalsy(targetNodeId) THEN builtEdges
                 ELSE IF /\ IsVisible(visibleColumns, sourceNodeId, rel.sourceColumn)
                         /\ IsVisible(visibleColumns, targetNodeId, rel.targetColumn)
                      THEN Append(builtEdges, edge)
                      ELSE builtEdges
         IN BuildCanvasEdges(built, Tail(rels), index + 1, ports, visibleColumns)

buildEdgesFromRelationships(colRels, ports, visibleColumns) ==
    BuildCanvasEdges(<<>>, colRels, 0, ports, visibleColumns)

(***************************************************************************)
(* findUpstreamColumnLineage / findDownstreamColumnLineage.  A column that *)
(* has no port adds no port id; its edges are followed all the same.       *)
(***************************************************************************)
\* findUpstreamColumnLineage.traverseUpstream, up to its forEach
columnTraverseUpstream(c, currentColumnId) ==
    IF currentColumnId \in c.visited THEN c
    ELSE LET ports == IF MapHas(c.maps.columnToPort, currentColumnId)
                      THEN {c.maps.columnToPort[currentColumnId].portId}
                      ELSE {}
         IN [c EXCEPT !.visited = @ \cup {currentColumnId},
                      !.lineageColumns = @ \cup {currentColumnId},
                      !.expanded = Append(@, currentColumnId),
                      !.lineagePorts = @ \cup ports,
                      !.stack = Append(@, [id |-> currentColumnId, related |-> <<>>,
                                           edges |-> GetOrEmpty(c.maps.columnToEdges,
                                                                currentColumnId)])]

\* columnTraverseDownstream that returns at a column without a port, as the
\* port-level traversal does at a port without a node
columnTraverseDownstream_StopAtUnknown(c, currentColumnId) ==
    IF currentColumnId \in c.visited THEN c
    ELSE LET c1 == [c EXCEPT !.visited = @ \cup {currentColumnId},
                             !.lineageColumns = @ \cup {currentColumnId},
                             !.expanded = Append(@, currentColumnId)]
         IN IF ~MapHas(c.maps.columnToPort, currentColumnId) THEN c1
            ELSE [c1 EXCEPT !.lineagePorts =
                                @ \cup {c.maps.columnToPort[currentColumnId].portId},
                            !.stack = Append(@, [id |-> currentColumnId,
                                                 related |-> <<>>,
                                                 edges |-> GetOrEmpty(c.maps.columnToEdges,
                                                                      currentColumnId)])]

\* findDownstreamColumnLineage.traverseDownstream, up to its forEach
columnTraverseDownstream(c, currentColumnId) ==
    IF currentColumnId \in c.visited THEN c
    ELSE LET ports == IF MapHas(c.maps.columnToPort, currentColumnId)
                      THEN {c.maps.columnToPort[currentColumnId].portId}
                      ELSE {}
         IN [c EXCEPT !.visited = @ \cup {currentColumnId},
                      !.lineageColumns = @ \cup {currentColumnId},
                      !.expanded = Append(@, currentColumnId),
                      !.lineagePorts = @ \cup ports,
                      !.stack = Append(@, [id |-> currentColumnId, related |-> <<>>,
                                           edges |-> GetOrEmpty(c.maps.columnToEdges,
                                                                currentColumnId)])]

\* columnUpstreamEdge without the test of the edge's direction
columnUpstreamEdge_AnyDirection(c) ==
    LET n == Len(c.stack)
        edge == Head(c.stack[n].edges)
        c1 == [c EXCEPT !.stack[n].edges = Tail(@), !.steps = @ + 1]
        far == IF edge.targetColumn = c.stack[n].id THEN edge.sourceColumn
               ELSE edge.targetColumn
    IN columnTraverseUpstream([c1 EXCEPT !.lineageEdges = @ \cup {edge.id}], far)

\* edges.forEach(edge => { if (edge.targetColumn === currentColumnId)
\*     { lineageEdges.add(edge.id); traverseUpstream(edge.sourceColumn) } })
columnUpstreamEdge(c) ==
    LET n == Len(c.stack)
        edge == Head(c.stack[n].edges)
        c1 == [c EXCEPT !.stack[n].edges = Tail(@), !.steps = @ + 1]
    IN IF edge.targetColumn = c.stack[n].id
       THEN columnTraverseUpstream([c1 EXCEPT !.lineageEdges = @ \cup {edge.id}], edge.sourceColumn)
       ELSE c1

\* columnDownstreamEdge that adds the target column and does not go on from it
columnDownstreamEdge_OneHop(c) ==
    LET n == Len(c.stack)
        edge == Head(c.stack[n].edges)
        c1 == [c EXCEPT !.stack[n].edges = Tail(@), !.steps = @ + 1]
    IN IF edge.sourceColumn = c.stack[n].id
       THEN [c1 EXCEPT !.lineageEdges = @ \cup {edge.id},
                       !.lineageColumns = @ \cup {edge.targetColumn}]
       ELSE c1

columnDownstreamEdge(c) ==
    LET n == Len(c.stack)
        edge == Head(c.stack[n].edges)
        c1 == [c EXCEPT !.stack[n].edges = Tail(@), !.steps = @ + 1]
    IN IF edge.sourceColumn = c.stack[n].id
       THEN columnTraverseDownstream([c1 EXCEPT !.lineageEdges = @ \cup {edge.id}], edge.targetColumn)
       ELSE c1

\* return { columns: lineageColumns, edges: lineageEdges, ports: lineagePorts }
ColumnLineageResult(c) ==
    [columns |-> c.lineageColumns, edges |-> c.lineageEdges, ports |-> c.lineagePorts]

findUpstreamColumnLineage(c, columnId) == columnTraverseUpstream(FreshSets(c), columnId)

findDownstreamColumnLineage(c, columnId) == columnTraverseDownstream(FreshSets(c), columnId)

(***************************************************************************)
(* findCompleteColumnLineage.                                              *)
(***************************************************************************)
EmptyColumnComplete ==
    [columns |-> {}, edges |-> {}, ports |-> {},
     upstream |-> EmptyColumnSets, downstream |-> EmptyColumnSets]

CombineColumnLineage(upstream, downstream) ==
    [columns |-> upstream.columns \cup downstream.columns,
     edges |-> upstream.edges \cup downstream.edges,
     ports |-> upstream.ports \cup downstream.ports,
     upstream |-> upstream,
     downstream |-> downstream]

findCompleteColumnLineage(columnId, colRels, ports) ==
    LET c == [IdleCall EXCEPT !.fn = "findCompleteColumnLineage", !.startId = columnId]
    IN IF IsFalsy(columnId)
       THEN [c EXCEPT !.pc = "done", !.result = EmptyColumnComplete]
       ELSE [findUpstreamColumnLineage(
                 [c EXCEPT !.maps = buildColumnLineageMaps(colRels, ports)], columnId)
                EXCEPT !.pc = "columnUpstream"]

columnUpstreamDone(c) ==
    [findDownstreamColumnLineage([c EXCEPT !.upstream = ColumnLineageResult(c)], c.startId)
        EXCEPT !.pc = "columnDownstream"]

columnDownstreamDone(c) ==
    LET downstream == ColumnLineageResult(c)
    IN [c EXCEPT !.downstream = downstream,
                 !.result = CombineColumnLineage(c.upstream, downstream),
                 !.pc = "done"]

(***************************************************************************)
(* The canvas components.  A canvas is a record of the component's state   *)
(* variables (useState) that the claims concern, with two more fields:     *)
(*   pc      the position of the component's data load: "mounted" before   *)
(*           the load effect has run, then the await it is suspended at,   *)
(*           "done" after the finally block                                *)
(*   threw   history: the load has ended in its catch block                *)
(*   last    history (FlowCanvas): the selection handler that ran last     *)
(* expandedNodes, an object {nodeId: boolean} read only through its        *)
(* truthiness, is the set of the node ids whose flag is true.              *)
(***************************************************************************)
\* history: the handler that ran last, the id it was given and the
\* selection it found
NoHandler == [handler |-> "none", id |-> Null, selectedNode |-> Null]

\* FlowCanvas: the useState initial values
InitialFlowCanvas ==
    [nodes |-> <<>>, edges |-> <<>>, relationships |-> <<>>, manualEdges |-> <<>>,
     selectedNode |-> Null, expandedNodes |-> {}, visiblePorts |-> EmptyMap,
     loading |-> TRUE, error |-> Null, lineage |-> EmptyComplete,
     pc |-> "mounted", threw |-> FALSE, last |-> NoHandler]

\* ColumnLineageCanvas({initialPortId}): the useState initial values
InitialColumnCanvas(initialPortId) ==
    [initialPortId |-> initialPortId, nodes |-> <<>>, columnData |-> Null,
     loading |-> TRUE, error |-> Null, pc |-> "mounted", threw |-> FALSE]

(***************************************************************************)
(* Actions.                                                                *)
(***************************************************************************)
Inputs == <<nodes, relationships, allPorts, columnRelationships>>
Canvases == <<flowCanvas, columnCanvas>>

CallFindCompleteLineage ==
    /\ call.pc = "idle"
    /\ \E portId \in StartPortIds :
           call' = findCompleteLineage(portId, relationships, nodes)
    /\ UNCHANGED <<Inputs, concurrent, Canvases>>

UpstreamRelated ==
    /\ call.pc = "upstream"
    /\ call.stack # <<>>
    /\ Top(call).related # <<>>
    /\ call' = upstreamRelated(call)
    /\ UNCHANGED <<Inputs, concurrent, Canvases>>

UpstreamEdge ==
    /\ call.pc = "upstream"
    /\ call.stack # <<>>
    /\ Top(call).related = <<>>
    /\ Top(call).edges # <<>>
    /\ call' = upstreamEdge(call)
    /\ UNCHANGED <<Inputs, concurrent, Canvases>>

UpstreamReturn ==
    /\ call.pc = "upstream"
    /\ call.stack # <<>>
    /\ Top(call).related = <<>>
    /\ Top(call).edges = <<>>
    /\ call' = returnFrame(call)
    /\ UNCHANGED <<Inputs, concurrent, Canvases>>

UpstreamDone ==
    /\ call.pc = "upstream"
    /\ call.stack = <<>>
    /\ call' = upstreamDone(call)
    /\ UNCHANGED <<Inputs, concurrent, Canvases>>

DownstreamRelated ==
    /\ call.pc = "downstream"
    /\ call.stack # <<>>
    /\ Top(call).related # <<>>
    /\ call' = downstreamRelated(call)
    /\ UNCHANGED <<Inputs, concurrent, Canvases>>

DownstreamEdge ==
    /\ call.pc = "downstream"
    /\ call.stack # <<>>
    /\ Top(call).related = <<>>
    /\ Top(call).edges # <<>>
    /\ call' = downstreamEdge(call)
    /\ UNCHANGED <<Inputs, concurrent, Canvases>>

DownstreamReturn ==
    /\ call.pc = "downstream"
    /\ call.stack # <<>>
    /\ Top(call).related = <<>>
    /\ Top(call).edges = <<>>
    /\ call' = returnFrame(call)
    /\ UNCHANGED <<Inputs, concurrent, Canvases>>

DownstreamDone ==
    /\ call.pc = "downstream"
    /\ call.stack = <<>>
    /\ call' = downstreamDone(call)
    /\ UNCHANGED <<Inputs, concurrent, Canvases>>

CallFindNodeLineage ==
    /\ call.pc = "idle"
    /\ \E nodeId \in StartNodeIds :
           call' = findNodeLineage(nodeId, relationships, nodes)
    /\ UNCHANGED <<Inputs, concurrent, Canvases>>

NodeRelationship ==
    /\ call.pc = "node"
    /\ call.stack # <<>>
    /\ Top(call).edges # <<>>
    /\ call' = nodeRelationship(call, relationships)
    /\ UNCHANGED <<Inputs, concurrent, Canvases>>

NodeReturn ==
    /\ call.pc = "node"
    /\ call.stack # <<>>
    /\ Top(call).edges = <<>>
    /\ call' = returnFrame(call)
    /\ UNCHANGED <<Inputs, concurrent, Canvases>>

NodeDone ==
    /\ call.pc = "node"
    /\ call.stack = <<>>
    /\ call' = nodeDone(call)
    /\ UNCHANGED <<Inputs, concurrent, Canvases>>

CallFindCompleteColumnLineage ==
    /\ call.pc = "idle"
    /\ \E columnId \in StartColumnIds :
           call' = findCompleteColumnLineage(columnId, columnRelationships, allPorts)
    /\ UNCHANGED <<Inputs, concurrent, Canvases>>

ColumnUpstreamEdge ==
    /\ call.pc = "columnUpstream"
    /\ call.stack # <<>>
    /\ Top(call).edges # <<>>
    /\ call' = columnUpstreamEdge(call)
    /\ UNCHANGED <<Inputs, concurrent, Canvases>>

ColumnUpstreamReturn ==
    /\ call.pc = "columnUpstream"
    /\ call.stack # <<>>
    /\ Top(call).edges = <<>>
    /\ call' = returnFrame(call)
    /\ UNCHANGED <<Inputs, concurrent, Canvases>>

ColumnUpstreamDone ==
    /\ call.pc = "columnUpstream"
    /\ call.stack = <<>>
    /\ call' = columnUpstreamDone(call)
    /\ UNCHANGED <<Inputs, concurrent, Canvases>>

ColumnDownstreamEdge ==
    /\ call.pc = "columnDownstream"
    /\ call.stack # <<>>
    /\ Top(call).edges # <<>>
    /\ call' = columnDownstreamEdge(call)
    /\ UNCHANGED <<Inputs, concurrent, Canvases>>

ColumnDownstreamReturn ==
    /\ call.pc = "columnDownstream"
    /\ call.stack # <<>>
    /\ Top(call).edges = <<>>
    /\ call' = returnFrame(call)
    /\ UNCHANGED <<Inputs, concurrent, Canvases>>

ColumnDownstreamDone ==
    /\ call.pc = "columnDownstream"
    /\ call.stack = <<>>
    /\ call' = columnDownstreamDone(call)
    /\ UNCHANGED <<Inputs, concurrent, Canvases>>

(***************************************************************************)
(* Specification.                                                          *)
(***************************************************************************)
InitPortInputs ==
    \E rs \in Selections(RelCandidates, MaxRels),
       ds \in Selections(RelatedCandidates, MaxRelated) :
        /\ relationships = SubList(RelCandidates, rs)
        /\ nodes = NodesWith(SubList(RelatedCandidates, ds))
        /\ allPorts = ScenarioAllPorts
        /\ columnRelationships = ScenarioColumnRelationships

InitColumnInputs ==
    \E cs \in Selections(ColRelCandidates, MaxColRels), withDownstream \in BOOLEAN :
        /\ relationships = ChainRelationships
        /\ nodes = ChainNodes
        /\ allPorts = AllPortsWith(withDownstream)
        /\ columnRelationships = SubList(ColRelCandidates, cs)

\* a node list that holds only some of the data products, so that
\* relationships name ports of products that are not on the canvas
InitSparseInputs ==
    \E rs \in Selections(RelCandidates, MaxRels), ns \in SUBSET (DOMAIN ChainNodes) :
        /\ relationships = SubList(RelCandidates, rs)
        /\ nodes = SubList(ChainNodes, ns)
        /\ allPorts = ScenarioAllPorts
        /\ columnRelationships = ScenarioColumnRelationships

Init ==
    /\ call = IdleCall
    /\ concurrent = IdleCall
    /\ flowCanvas = InitialFlowCanvas
    /\ columnCanvas = InitialColumnCanvas(Null)
    /\ (InitPortInputs \/ InitSparseInputs \/ InitColumnInputs)

Next ==
    \/ CallFindCompleteLineage
    \/ UpstreamRelated
    \/ UpstreamEdge
    \/ UpstreamReturn
    \/ UpstreamDone
    \/ DownstreamRelated
    \/ DownstreamEdge
    \/ DownstreamReturn
    \/ DownstreamDone
    \/ CallFindNodeLineage
    \/ NodeRelationship
    \/ NodeReturn
    \/ NodeDone
    \/ CallFindCompleteColumnLineage
    \/ ColumnUpstreamEdge
    \/ ColumnUpstreamReturn
    \/ ColumnUpstreamDone
    \/ ColumnDownstreamEdge
    \/ ColumnDownstreamReturn
    \/ ColumnDownstreamDone

Spec == Init /\ [][Next]_vars

(***************************************************************************)
(* Two top-level calls in progress at once.  The second call runs the same *)
(* code: startCall is its entry, stepCall the next step of its body, taken *)
(* from its own activation record.                                         *)
(***************************************************************************)
Running(c) == c.pc \notin {"idle", "done"}

CallKinds ==
    ({"findCompleteLineage"} \X StartPortIds)
        \cup ({"findNodeLineage"} \X StartNodeIds)
        \cup ({"findCompleteColumnLineage"} \X StartColumnIds)

\* the entry of fn(id, ...) on the inputs
startCall(fn, id) ==
    CASE fn = "findCompleteLineage" -> findCompleteLineage(id, relationships, nodes)
      [] fn = "findNodeLineage" -> findNodeLineage(id, relationships, nodes)
      [] fn = "findCompleteColumnLineage" ->
             findCompleteColumnLineage(id, columnRelationships, allPorts)

\* the next step of the running call c
stepCall(c) ==
    CASE c.pc = "upstream" ->
             IF c.stack = <<>> THEN upstreamDone(c)
             ELSE IF Top(c).related # <<>> THEN upstreamRelated(c)
             ELSE IF Top(c).edges # <<>> THEN upstreamEdge(c)
             ELSE returnFrame(c)
      [] c.pc = "downstream" ->
             IF c.stack = <<>> THEN downstreamDone(c)
             ELSE IF Top(c).related # <<>> THEN downstreamRelated(c)
             ELSE IF Top(c).edges # <<>> THEN downstreamEdge(c)
             ELSE returnFrame(c)
      [] c.pc = "node" ->
             IF c.stack = <<>> THEN nodeDone(c)
             ELSE IF Top(c).edges # <<>> THEN nodeRelationship(c, relationships)
             ELSE returnFrame(c)
      [] c.pc = "columnUpstream" ->
             IF c.stack = <<>> THEN columnUpstreamDone(c)
             ELSE IF Top(c).edges # <<>> THEN columnUpstreamEdge(c)
             ELSE returnFrame(c)
      [] c.pc = "columnDownstream" ->
             IF c.stack = <<>> THEN columnDownstreamDone(c)
             ELSE IF Top(c).edges # <<>> THEN columnDownstreamEdge(c)
             ELSE returnFrame(c)

\* stepBeside with the lineage Sets hoisted to module level: the step also
\* sees what the other call has collected
stepBeside_SharedLineageSets(c, o) ==
    stepCall([c EXCEPT !.lineageNodes = @ \cup o.lineageNodes,
                       !.lineageEdges = @ \cup o.lineageEdges,
                       !.lineagePorts = @ \cup o.lineagePorts,
                       !.lineageColumns = @ \cup o.lineageColumns])

\* stepBeside with the visited Set hoisted to module level
stepBeside_SharedVisited(c, o) ==
    stepCall([c EXCEPT !.visited = @ \cup o.visited])

\* a step of call c while call o is in progress: visited, the lineage Sets
\* and the maps are locals of c's own invocation, nothing of o is read
stepBeside(c, o) == stepCall(c)

ConcurrentCall ==
    /\ concurrent.pc = "idle"
    /\ \E kind \in CallKinds : concurrent' = startCall(kind[1], kind[2])
    /\ UNCHANGED <<Inputs, call, Canvases>>

ConcurrentStep ==
    /\ Running(concurrent)
    /\ concurrent' = stepBeside(concurrent, call)
    /\ UNCHANGED <<Inputs, call, Canvases>>

\* a graph with a cycle of port relationships, related ports and a direct
\* relationship, or the plain chain; two chained column relationships
InterleavedInit ==
    /\ call = IdleCall
    /\ concurrent = IdleCall
    /\ flowCanvas = InitialFlowCanvas
    /\ columnCanvas = InitialColumnCanvas(Null)
    /\ \/ /\ relationships = SubList(RelCandidates, {1, 3, 7})
          /\ nodes = NodesWith(SubList(RelatedCandidates, {1, 2, 3}))
       \/ /\ relationships = ChainRelationships
          /\ nodes = ChainNodes
    /\ allPorts = ScenarioAllPorts
    /\ columnRelationships = SubList(ColRelCandidates, {1, 2})

InterleavedNext ==
    \/ Next
    \/ ConcurrentCall
    \/ ConcurrentStep

InterleavedSpec == InterleavedInit /\ [][InterleavedNext]_vars

(***************************************************************************)
(* Node lists in which a port id occurs more than once: data product A     *)
(* lists B.in1 among its outputs, B declares it as an input, and C lists   *)
(* C.in1 twice as an input and once as an output; the nodes come in any    *)
(* order.                                                                  *)
(***************************************************************************)
DuplicateNodeCandidates ==
    << Node("A", <<Port("A.in1", <<>>)>>,
                 <<Port("A.out1", <<"A.in1">>), Port("B.in1", <<>>)>>),
       Node("B", <<Port("B.in1", <<"B.out1">>)>>,
                 <<Port("B.out1", <<"B.in1">>)>>),
       Node("C", <<Port("C.in1", <<>>), Port("C.in1", <<>>)>>,
                 <<Port("C.in1", <<>>)>>) >>

\* the lists made of distinct elements of s, in any order
Orderings(s) ==
    LET picks == UNION {[1..n -> DOMAIN s] : n \in 0..Len(s)}
        oneToOne == {f \in picks : \A i, j \in DOMAIN f : i # j => f[i] # f[j]}
    IN {[i \in DOMAIN f |-> s[f[i]]] : f \in oneToOne}

DuplicateInit ==
    /\ call = IdleCall
    /\ concurrent = IdleCall
    /\ flowCanvas = InitialFlowCanvas
    /\ columnCanvas = InitialColumnCanvas(Null)
    /\ nodes \in Orderings(DuplicateNodeCandidates)
    /\ \E rs \in {{1, 2}, {1, 3}, {2, 7}} : relationships = SubList(RelCandidates, rs)
    /\ allPorts = ScenarioAllPorts
    /\ columnRelationships = ScenarioColumnRelationships

DuplicateSpec == DuplicateInit /\ [][Next]_vars

(***************************************************************************)
(* What the node list declares, read off the inputs themselves.            *)
(***************************************************************************)
PortIdsOf(ports) == {ports[i].id : i \in DOMAIN ports}

DeclaredInputs == UNION {PortIdsOf(nodes[i].data.inputs) : i \in DOMAIN nodes}
DeclaredOutputs == UNION {PortIdsOf(nodes[i].data.outputs) : i \in DOMAIN nodes}
DeclaredPorts == DeclaredInputs \cup DeclaredOutputs

\* the node declaring port p
OwnerOf(p) ==
    LET i == CHOOSE i \in DOMAIN nodes :
                 p \in PortIdsOf(nodes[i].data.inputs) \cup PortIdsOf(nodes[i].data.outputs)
    IN nodes[i].id

PortRelationships == {rel \in Range(relationships) : rel.type = "port"}

\* the call of fn has returned
Returned(fn) == call.pc = "done" /\ call.fn = fn

\* ... for a start id that is present
ReturnedFor(fn) == Returned(fn) /\ ~IsFalsy(call.startId)

(***************************************************************************)
(* C1: the complete lineage of a non-empty start id contains the start     *)
(* element: the port set of findCompleteLineage(p, ...) contains p and the *)
(* column set of findCompleteColumnLineage(c, ...) contains c, also when   *)
(* the start has no neighbours or is declared nowhere.                     *)
(***************************************************************************)
C1_StartInCompleteLineage ==
    /\ ReturnedFor("findCompleteLineage") => call.startId \in call.result.ports
    /\ ReturnedFor("findCompleteColumnLineage") => call.startId \in call.result.columns

\* an undeclared start port without neighbours is the whole port set
C1_Witness ==
    /\ Returned("findCompleteLineage")
    /\ call.startId = GhostPort
    /\ GhostPort \notin DeclaredPorts
    /\ call.result.edges = {}
    /\ call.result.ports = {GhostPort}

(***************************************************************************)
(* C2: each combined set of a complete lineage is the union of the         *)
(* corresponding sets of the upstream and the downstream traversal run on  *)
(* maps built from the call's inputs, and the halves returned are exactly  *)
(* the results of those two traversals; port level and column level.       *)
(***************************************************************************)
C2_CompleteIsUnionOfHalves ==
    /\ ReturnedFor("findCompleteLineage") =>
           /\ call.maps = buildLineageMaps(relationships, nodes)
           /\ call.result.nodes = call.upstream.nodes \cup call.downstream.nodes
           /\ call.result.edges = call.upstream.edges \cup call.downstream.edges
           /\ call.result.ports = call.upstream.ports \cup call.downstream.ports
           /\ call.result.upstream = call.upstream
           /\ call.result.downstream = call.downstream
           /\ call.downstream = LineageResult(call)
    /\ ReturnedFor("findCompleteColumnLineage") =>
           /\ call.maps = buildColumnLineageMaps(columnRelationships, allPorts)
           /\ call.result.columns = call.upstream.columns \cup call.downstream.columns
           /\ call.result.edges = call.upstream.edges \cup call.downstream.edges
           /\ call.result.ports = call.upstream.ports \cup call.downstream.ports
           /\ call.result.upstream = call.upstream
           /\ call.result.downstream = call.downstream
           /\ call.downstream = ColumnLineageResult(call)

\* both halves carry edges and differ in every set
C2_Witness ==
    /\ Returned("findCompleteLineage")
    /\ call.result.upstream.edges # {}
    /\ call.result.downstream.edges # {}
    /\ call.result.upstream.edges # call.result.downstream.edges
    /\ call.result.upstream.nodes # call.result.downstream.nodes
    /\ call.result.upstream.ports # call.result.downstream.ports

(***************************************************************************)
(* C3: for a port relationship from an output port P1 to an input port P2, *)
(* the downstream lineage of P1 holds the relationship's edge id and P2,   *)
(* and the upstream lineage of P2 holds the same edge id and P1.           *)
(***************************************************************************)
C3_DirectionAsymmetry ==
    ReturnedFor("findCompleteLineage") =>
        \A rel \in PortRelationships :
            (rel.sourcePort \in DeclaredOutputs /\ rel.targetPort \in DeclaredInputs) =>
                /\ call.startId = rel.sourcePort =>
                       /\ EdgeId(rel) \in call.result.downstream.edges
                       /\ rel.targetPort \in call.result.downstream.ports
                /\ call.startId = rel.targetPort =>
                       /\ EdgeId(rel) \in call.result.upstream.edges
                       /\ rel.sourcePort \in call.result.upstream.ports

\* A.out1 -> B.in1 seen from B.in1: edge and source port are upstream
C3_Witness ==
    /\ Returned("findCompleteLineage")
    /\ call.startId = "B.in1"
    /\ \E rel \in PortRelationships :
           /\ rel.sourcePort = "A.out1" /\ rel.targetPort = "B.in1"
           /\ "A.out1" \in DeclaredOutputs /\ "B.in1" \in DeclaredInputs
           /\ EdgeId(rel) \in call.result.upstream.edges
           /\ "A.out1" \in call.result.upstream.ports

(***************************************************************************)
(* C4: for a port relationship from an output port P1 to an input port P2, *)
(* the upstream lineage of P1 holds the relationship's edge only when P2   *)
(* is itself upstream of P1 (P2 is in the same result's port set, reached  *)
(* through related-port declarations, directly or round a cycle of         *)
(* relationships); the visit of an output port follows no relationship:    *)
(* while going upstream only frames of input ports have edges to scan.     *)
(***************************************************************************)
C4_UpstreamEdgeOnlyThroughTarget ==
    /\ call.pc = "upstream" =>
           \A i \in DOMAIN call.stack :
               call.stack[i].edges # <<>> => call.stack[i].id \in DeclaredInputs
    /\ ReturnedFor("findCompleteLineage") =>
           \A rel \in PortRelationships :
               (/\ call.startId = rel.sourcePort
                /\ rel.sourcePort \in DeclaredOutputs
                /\ rel.targetPort \in DeclaredInputs
                /\ EdgeId(rel) \in call.result.upstream.edges)
               => rel.targetPort \in call.result.upstream.ports

\* every related-port declaration names a port of the declaring port's own
\* node, of the other direction
RelatedPortsWellFormed ==
    \A i \in DOMAIN nodes :
        /\ \A k \in DOMAIN nodes[i].data.inputs :
               Range(nodes[i].data.inputs[k].relatedPorts)
                   \subseteq PortIdsOf(nodes[i].data.outputs)
        /\ \A k \in DOMAIN nodes[i].data.outputs :
               Range(nodes[i].data.outputs[k].relatedPorts)
                   \subseteq PortIdsOf(nodes[i].data.inputs)

\* C4 as stated, already on the graphs whose related-port declarations are
\* well formed: the upstream lineage of P1 never holds the edge P1 -> P2
C4_Original ==
    (ReturnedFor("findCompleteLineage") /\ RelatedPortsWellFormed) =>
        \A rel \in PortRelationships :
            (/\ call.startId = rel.sourcePort
             /\ rel.sourcePort \in DeclaredOutputs
             /\ rel.targetPort \in DeclaredInputs)
            => EdgeId(rel) \notin call.result.upstream.edges

\* the cycle A.out1 -> B.in1, B.out1 -> A.in1 with well-formed related
\* ports: upstream of A.out1 comes back to B.in1 and picks up edge-r1
C4_Witness ==
    /\ Returned("findCompleteLineage")
    /\ call.startId = "A.out1"
    /\ "A.out1" \in DeclaredOutputs
    /\ \E rel \in PortRelationships :
           /\ rel.sourcePort = "A.out1" /\ rel.targetPort = "B.in1"
           /\ EdgeId(rel) \in call.result.upstream.edges
    /\ \E rel \in PortRelationships :
           rel.sourcePort = "B.out1" /\ rel.targetPort = "A.in1"
    /\ RelatedPortsWellFormed
    /\ "B.in1" \in call.result.upstream.ports

(***************************************************************************)
(* C5: every traversal terminates on every finite graph, cyclic related-   *)
(* port declarations and cyclic relationships included.  While a traversal *)
(* runs, no element passes the visited test twice, every element with a    *)
(* frame on the stack is already marked visited, a next step exists, and   *)
(* the number of steps taken stays within a bound fixed by the size of the *)
(* inputs; so the traversal returns after at most that many steps.         *)
(***************************************************************************)
InTraversal ==
    call.pc \in {"upstream", "downstream", "node", "columnUpstream", "columnDownstream"}

NoDuplicates(s) == \A i, j \in DOMAIN s : i # j => s[i] # s[j]

RECURSIVE SumLen(_)
SumLen(ports) ==
    IF ports = <<>> THEN 0 ELSE Len(Head(ports).relatedPorts) + SumLen(Tail(ports))

RECURSIVE TotalRelated(_)
TotalRelated(ns) ==
    IF ns = <<>> THEN 0
    ELSE SumLen(Head(ns).data.inputs) + SumLen(Head(ns).data.outputs)
         + TotalRelated(Tail(ns))

\* invocations made from loops plus returns, per traversal
StepBound ==
    CASE call.pc \in {"upstream", "downstream"} ->
             2 * (TotalRelated(nodes) + 2 * Len(relationships)) + 1
      [] call.pc = "node" ->
             (1 + 2 * Len(relationships)) * (2 * Len(relationships) + 1)
      [] call.pc \in {"columnUpstream", "columnDownstream"} ->
             4 * Len(columnRelationships) + 1

C5_TraversalsTerminate ==
    InTraversal =>
        /\ NoDuplicates(call.expanded)
        /\ \A i \in DOMAIN call.stack : call.stack[i].id \in call.visited
        /\ Range(call.expanded) = call.visited
        /\ call.steps <= StepBound
        /\ ENABLED Next

\* A.out1 and B.out1 declare each other as related ports: the upstream
\* traversal from A.out1 has returned with both, each expanded once
C5_Witness ==
    /\ Returned("findCompleteLineage")
    /\ call.startId = "A.out1"
    /\ \E i \in DOMAIN nodes : \E k \in DOMAIN nodes[i].data.outputs :
           /\ nodes[i].data.outputs[k].id = "A.out1"
           /\ "B.out1" \in Range(nodes[i].data.outputs[k].relatedPorts)
    /\ \E i \in DOMAIN nodes : \E k \in DOMAIN nodes[i].data.outputs :
           /\ nodes[i].data.outputs[k].id = "B.out1"
           /\ "A.out1" \in Range(nodes[i].data.outputs[k].relatedPorts)
    /\ call.result.upstream.ports = {"A.out1", "B.out1"}

(***************************************************************************)
(* C6: with no start id, findCompleteLineage and findCompleteColumnLineage *)
(* return empty combined sets with empty upstream and downstream halves    *)
(* and findNodeLineage returns empty nodes and edges; the call returns at  *)
(* once: no maps are built and nothing is visited.                         *)
(***************************************************************************)
C6_AbsentStartIsEmpty ==
    (call.pc # "idle" /\ IsFalsy(call.startId)) =>
        /\ call.pc = "done"
        /\ call.maps = NoMaps
        /\ call.stack = <<>> /\ call.visited = {} /\ call.expanded = <<>>
        /\ call.steps = 0
        /\ call.fn = "findCompleteLineage" =>
               call.result = [nodes |-> {}, edges |-> {}, ports |-> {},
                              upstream |-> [nodes |-> {}, edges |-> {}, ports |-> {}],
                              downstream |-> [nodes |-> {}, edges |-> {}, ports |-> {}]]
        /\ call.fn = "findCompleteColumnLineage" =>
               call.result = [columns |-> {}, edges |-> {}, ports |-> {},
                              upstream |-> [columns |-> {}, edges |-> {}, ports |-> {}],
                              downstream |-> [columns |-> {}, edges |-> {}, ports |-> {}]]
        /\ call.fn = "findNodeLineage" =>
               call.result = [nodes |-> {}, edges |-> {}]

\* findCompleteLineage(null, ...) has returned, on a graph with relationships
C6_Witness ==
    /\ Returned("findCompleteLineage")
    /\ call.startId = Null
    /\ relationships # <<>>
    /\ call.result.ports = {}

(***************************************************************************)
(* C7: on the chain A.out1 -> B.in1, B.out1 -> C.in1 without related-port  *)
(* declarations, findCompleteLineage(B.in1) has nodes {A, B}, ports        *)
(* {A.out1, B.in1} and the edge of the A -> B relationship only.           *)
(***************************************************************************)
IsChain == nodes = ChainNodes /\ relationships = ChainRelationships

C7_ChainFromBIn1 ==
    (IsChain /\ Returned("findCompleteLineage") /\ call.startId = "B.in1") =>
        /\ call.result.nodes = {"A", "B"}
        /\ call.result.ports = {"A.out1", "B.in1"}
        /\ call.result.edges = {"edge-r1"}

C7_Witness ==
    /\ IsChain
    /\ Returned("findCompleteLineage")
    /\ call.startId = "B.in1"
    /\ "C" \notin call.result.nodes
    /\ "edge-r2" \notin call.result.edges
    /\ {"B.out1", "C.in1"} \cap call.result.ports = {}

(***************************************************************************)
(* C8: a downstream traversal started at a declared input port that        *)
(* declares no related ports follows nothing, yet its result is not empty: *)
(* it holds the start port and the node owning it, and no edge.  On the    *)
(* chain, the downstream half of findCompleteLineage(B.in1) is ports       *)
(* {B.in1}, nodes {B}, edges {}, and the upstream half is non-empty.       *)
(***************************************************************************)
\* the related ports port p declares
DeclaredRelated(p) ==
    UNION {Range(port.relatedPorts) :
              port \in {q \in UNION {Range(nodes[i].data.inputs) \cup
                                     Range(nodes[i].data.outputs) : i \in DOMAIN nodes} :
                           q.id = p}}

C8_DownstreamOfBareInput ==
    /\ (/\ ReturnedFor("findCompleteLineage")
        /\ call.startId \in DeclaredInputs
        /\ DeclaredRelated(call.startId) = {})
       => call.result.downstream = [nodes |-> {OwnerOf(call.startId)},
                                    edges |-> {},
                                    ports |-> {call.startId}]
    /\ (IsChain /\ Returned("findCompleteLineage") /\ call.startId = "B.in1")
       => /\ call.result.upstream.nodes # {}
          /\ call.result.upstream.edges # {}
          /\ call.result.upstream.ports # {}

\* C8 as stated: that downstream half is empty in all three sets
C8_Original ==
    (/\ ReturnedFor("findCompleteLineage")
     /\ call.startId \in DeclaredInputs
     /\ DeclaredRelated(call.startId) = {})
    => call.result.downstream = [nodes |-> {}, edges |-> {}, ports |-> {}]

C8_Witness ==
    /\ IsChain
    /\ Returned("findCompleteLineage")
    /\ call.startId = "B.in1"
    /\ call.result.downstream.ports = {"B.in1"}
    /\ call.result.downstream.nodes = {"B"}
    /\ call.result.downstream.edges = {}
    /\ call.result.upstream.edges = {"edge-r1"}

(***************************************************************************)
(* C9: a port relationship that names a port declared in no node is inert  *)
(* at its undeclared end only.  No invocation at an undeclared port gets   *)
(* past the owning-node lookup (it has no frame), a traversal started at   *)
(* an undeclared port returns that port alone, and the relationship is     *)
(* never followed starting from its undeclared end.  But from its declared *)
(* end it is followed: upstream of a declared input target, and downstream *)
(* of a declared output source, the relationship's edge id is in the edge  *)
(* set exactly when that declared port is in the port set, and then the    *)
(* undeclared port id is in the port set too.                              *)
(***************************************************************************)
C9_DanglingRelationship ==
    /\ call.pc \in {"upstream", "downstream"} =>
           \A i \in DOMAIN call.stack : call.stack[i].id \in DeclaredPorts
    /\ (ReturnedFor("findCompleteLineage") /\ call.startId \notin DeclaredPorts) =>
           /\ call.result.upstream =
                  [nodes |-> {}, edges |-> {}, ports |-> {call.startId}]
           /\ call.result.downstream =
                  [nodes |-> {}, edges |-> {}, ports |-> {call.startId}]
    /\ ReturnedFor("findCompleteLineage") =>
           \A rel \in PortRelationships :
               /\ rel.sourcePort \notin DeclaredPorts =>
                      /\ EdgeId(rel) \notin call.result.downstream.edges
                      /\ rel.targetPort \in DeclaredInputs =>
                             /\ EdgeId(rel) \in call.result.upstream.edges
                                    <=> rel.targetPort \in call.result.upstream.ports
                             /\ EdgeId(rel) \in call.result.upstream.edges
                                    => rel.sourcePort \in call.result.upstream.ports
               /\ rel.targetPort \notin DeclaredPorts =>
                      /\ EdgeId(rel) \notin call.result.upstream.edges
                      /\ rel.sourcePort \in DeclaredOutputs =>
                             /\ EdgeId(rel) \in call.result.downstream.edges
                                    <=> rel.sourcePort \in call.result.downstream.ports
                             /\ EdgeId(rel) \in call.result.downstream.edges
                                    => rel.targetPort \in call.result.downstream.ports

\* C9 as stated: the edge of a relationship naming an undeclared port is in
\* no traversal's edge set
C9_Original ==
    ReturnedFor("findCompleteLineage") =>
        \A rel \in PortRelationships :
            (rel.sourcePort \notin DeclaredPorts \/ rel.targetPort \notin DeclaredPorts)
            => /\ EdgeId(rel) \notin call.result.upstream.edges
               /\ EdgeId(rel) \notin call.result.downstream.edges

\* X.ghost -> B.in1 seen from B.in1: the edge and the undeclared port are
\* upstream, and nothing lies beyond the undeclared port
C9_Witness ==
    /\ Returned("findCompleteLineage")
    /\ call.startId = "B.in1"
    /\ GhostPort \notin DeclaredPorts
    /\ \E rel \in PortRelationships :
           /\ rel.sourcePort = GhostPort /\ rel.targetPort = "B.in1"
           /\ EdgeId(rel) \in call.result.upstream.edges
    /\ call.result.upstream.ports = {"B.in1", GhostPort}
    /\ call.result.upstream.nodes = {"B"}

(***************************************************************************)
(* C10: in column traversal a column that belongs to none of the supplied  *)
(* ports adds no port id to the result, but the traversal does not stop at *)
(* it: the column joins the column set and its relationships are followed  *)
(* like those of any column.  Downstream, every relationship whose source  *)
(* column is in the column set has its edge id in the edge set and its     *)
(* target column in the column set; upstream likewise from target to       *)
(* source; the port set is the ports of the supplied columns reached.      *)
(***************************************************************************)
ColumnIdsOf(port) == {port.columns[i].id : i \in DOMAIN port.columns}

SuppliedPorts == Range(AllPortsList(allPorts))

SuppliedColumns == UNION {ColumnIdsOf(port) : port \in SuppliedPorts}

PortIdsOfColumns(columns) ==
    {port.portId : port \in {q \in SuppliedPorts : ColumnIdsOf(q) \cap columns # {}}}

C10_ColumnTraversalPassesUnknownColumns ==
    ReturnedFor("findCompleteColumnLineage") =>
        /\ \A i \in DOMAIN columnRelationships :
               LET rel == columnRelationships[i]
               IN /\ rel.sourceColumn \in call.result.downstream.columns =>
                         /\ ColEdgeId(i - 1) \in call.result.downstream.edges
                         /\ rel.targetColumn \in call.result.downstream.columns
                  /\ rel.targetColumn \in call.result.upstream.columns =>
                         /\ ColEdgeId(i - 1) \in call.result.upstream.edges
                         /\ rel.sourceColumn \in call.result.upstream.columns
        /\ call.result.downstream.ports = PortIdsOfColumns(call.result.downstream.columns)
        /\ call.result.upstream.ports = PortIdsOfColumns(call.result.upstream.columns)

\* C10 as stated: no relationship beyond a column of no supplied port is
\* followed
C10_Original ==
    (ReturnedFor("findCompleteColumnLineage") /\ call.startId \in SuppliedColumns) =>
        \A i \in DOMAIN columnRelationships :
            LET rel == columnRelationships[i]
            IN /\ rel.sourceColumn \notin SuppliedColumns =>
                      /\ ColEdgeId(i - 1) \notin call.result.downstream.edges
               /\ rel.targetColumn \notin SuppliedColumns =>
                      /\ ColEdgeId(i - 1) \notin call.result.upstream.edges

\* c1 -> cx -> c2 with cx in no port: downstream of c1 passes cx and
\* reaches c2
C10_Witness ==
    /\ Returned("findCompleteColumnLineage")
    /\ call.startId = "c1"
    /\ GhostColumn \notin SuppliedColumns
    /\ \E i \in DOMAIN columnRelationships :
           /\ columnRelationships[i] = ColRel(GhostColumn, "c2")
           /\ ColEdgeId(i - 1) \in call.result.downstream.edges
    /\ {GhostColumn, "c2"} \subseteq call.result.downstream.columns
    /\ call.result.downstream.ports \subseteq {"S", "D"}

(***************************************************************************)
(* C11: with the single column relationship c1 -> c2, c1 a column of the   *)
(* selected port and c2 a column of a downstream port,                     *)
(* findCompleteColumnLineage(c1, ...) returns columns {c1, c2}, ports      *)
(* {selected port id, downstream port id} and the edge id synthesized for  *)
(* the relationship, col-edge-0, as the only edge.                         *)
(***************************************************************************)
IsColumnScenario ==
    /\ allPorts = ScenarioAllPorts
    /\ columnRelationships = ScenarioColumnRelationships

C11_ColumnScenario ==
    (/\ IsColumnScenario
     /\ Returned("findCompleteColumnLineage")
     /\ call.startId = "c1")
    => /\ call.result.columns = {"c1", "c2"}
       /\ call.result.ports = {SelectedPort.portId, DownstreamPort.portId}
       /\ call.result.edges = {ColEdgeId(0)}

C11_Witness ==
    /\ IsColumnScenario
    /\ columnRelationships = <<ColRel("c1", "c2")>>
    /\ "c1" \in ColumnIdsOf(allPorts.selectedPort)
    /\ "c2" \in ColumnIdsOf(allPorts.downstreamPorts[1])
    /\ Returned("findCompleteColumnLineage")
    /\ call.startId = "c1"
    /\ call.result.downstream.columns = {"c1", "c2"}
    /\ call.result.edges = {"col-edge-0"}

(***************************************************************************)
(* C12: each traversal result is bounded by the inputs.  The node set      *)
(* holds ids of the node list only, so it has at most as many elements as  *)
(* there are nodes.  The port set holds declared ports and, besides them,  *)
(* only undeclared ids that the start id, a related-port list or a port    *)
(* relationship mentions; its size is at most the number of declared ports *)
(* plus the number of those undeclared ids, and at most the number of      *)
(* declared ports when no undeclared id is mentioned.                      *)
(***************************************************************************)
NodeIds == {nodes[i].id : i \in DOMAIN nodes}

RECURSIVE TotalPorts(_)
TotalPorts(ns) ==
    IF ns = <<>> THEN 0
    ELSE Len(Head(ns).data.inputs) + Len(Head(ns).data.outputs) + TotalPorts(Tail(ns))

MentionedPorts ==
    UNION {DeclaredRelated(p) : p \in DeclaredPorts}
        \cup {rel.sourcePort : rel \in PortRelationships}
        \cup {rel.targetPort : rel \in PortRelationships}

UndeclaredMentioned == (MentionedPorts \cup {call.startId}) \ DeclaredPorts

HalfBounded(half) ==
    /\ half.nodes \subseteq NodeIds
    /\ Cardinality(half.nodes) <= Len(nodes)
    /\ half.ports \subseteq DeclaredPorts \cup UndeclaredMentioned
    /\ Cardinality(half.ports) <= TotalPorts(nodes) + Cardinality(UndeclaredMentioned)
    /\ UndeclaredMentioned = {} => Cardinality(half.ports) <= TotalPorts(nodes)

C12_ResultSetsBounded ==
    ReturnedFor("findCompleteLineage") =>
        /\ HalfBounded(call.result.upstream)
        /\ HalfBounded(call.result.downstream)

\* C12 as stated, for a declared start port: the port set never has more
\* elements than the node list declares ports
C12_Original ==
    (ReturnedFor("findCompleteLineage") /\ call.startId \in DeclaredPorts) =>
        /\ Cardinality(call.result.upstream.ports) <= TotalPorts(nodes)
        /\ Cardinality(call.result.downstream.ports) <= TotalPorts(nodes)
        /\ Cardinality(call.result.upstream.nodes) <= Len(nodes)
        /\ Cardinality(call.result.downstream.nodes) <= Len(nodes)

\* only data product C is on the canvas and B.out1 -> C.in1 is in the list:
\* upstream of C.in1 holds two port ids where one port is declared
C12_Witness ==
    /\ Returned("findCompleteLineage")
    /\ call.startId = "C.in1"
    /\ TotalPorts(nodes) = 1
    /\ DeclaredPorts = {"C.in1"}
    /\ call.result.upstream.ports = {"C.in1", "B.out1"}
    /\ call.result.upstream.nodes = {"C"}
    /\ UndeclaredMentioned # {}

(***************************************************************************)
(* C13: two calls of the same traversal with the same start id on the same *)
(* inputs return identical results, whether one follows the other or their *)
(* steps interleave, and no step of any call changes the relationship      *)
(* list, the node list with its related-port lists, the supplied column    *)
(* ports or the column relationship list.                                  *)
(***************************************************************************)
BothReturned == call.pc = "done" /\ concurrent.pc = "done"

SameCall == call.fn = concurrent.fn /\ call.startId = concurrent.startId

RECURSIVE runAlone(_)
runAlone(c) == IF Running(c) THEN runAlone(stepCall(c)) ELSE c

ResultAlone(c) == runAlone(startCall(c.fn, c.startId)).result

DirectRelationships == {rel \in Range(relationships) : rel.type = "direct"}

\* the nodes joined to those of S by direct relationships, either direction
RECURSIVE Connected(_)
Connected(S) ==
    LET more == S \cup {rel.targetNode : rel \in {r \in DirectRelationships : r.sourceNode \in S}}
                  \cup {rel.sourceNode : rel \in {r \in DirectRelationships : r.targetNode \in S}}
    IN IF more = S THEN S ELSE Connected(more)

C15_NodeLineageIsFloodFill ==
    ReturnedFor("findNodeLineage") =>
        /\ call.result.nodes = Connected({call.startId})
        /\ call.result.edges =
               {EdgeId(rel) : rel \in {r \in DirectRelationships :
                                          \/ r.sourceNode \in call.result.nodes
                                          \/ r.targetNode \in call.result.nodes}}
        /\ DOMAIN call.result = {"nodes", "edges"}

\* A -> B and B -> Z seen from Z: both are followed against their direction
C15_Witness ==
    /\ Returned("findNodeLineage")
    /\ call.startId = "Z"
    /\ {rel.id : rel \in DirectRelationships} = {"d1", "d2"}
    /\ call.result.nodes = {"A", "B", "Z"}
    /\ call.result.edges = {"edge-d1", "edge-d2"}

(***************************************************************************)
(* C16: findNodeLineage does not consult the node list.  A direct          *)
(* relationship naming a node id that the node list does not hold is       *)
(* followed like any other: whenever one end of a direct relationship is   *)
(* in the result's node set, so are its other end and its edge id, and the *)
(* traversal goes on through the absent node to the nodes beyond it.       *)
(***************************************************************************)
C16_AbsentNodesAreTraversed ==
    ReturnedFor("findNodeLineage") =>
        /\ call.startId \in call.result.nodes
        /\ \A rel \in DirectRelationships :
               (rel.sourceNode \in call.result.nodes \/ rel.targetNode \in call.result.nodes)
               => /\ rel.sourceNode \in call.result.nodes
                  /\ rel.targetNode \in call.result.nodes
                  /\ EdgeId(rel) \in call.result.edges

\* C16 as stated: from a node of the node list, no node outside the node
\* list enters the node set
C16_Original ==
    (ReturnedFor("findNodeLineage") /\ call.startId \in NodeIds) =>
        call.result.nodes \subseteq NodeIds

\* B -> Z and Z -> C with Z not in the node list: from B the traversal adds
\* Z and reaches C through it
C16_Witness ==
    /\ Returned("findNodeLineage")
    /\ call.startId = "B"
    /\ "Z" \notin NodeIds
    /\ {"B", "C"} \subseteq NodeIds
    /\ {rel.id : rel \in DirectRelationships} = {"d2", "d3"}
    /\ call.result.nodes = {"B", "Z", "C"}
    /\ call.result.edges = {"edge-d2", "edge-d3"}

(***************************************************************************)
(* C17: a visit of a port performs the intra-node step or the cross-node   *)
(* step, never both.  Going upstream, the invocation at an output port has *)
(* no relationship to scan and the one at an input port no related port to *)
(* follow; going downstream it is the other way round.  A step that adds   *)
(* an edge id is made from an input port going upstream, for a             *)
(* relationship whose target is that port, and from an output port going   *)
(* downstream, for a relationship whose source is that port.               *)
(***************************************************************************)
StepsExclusive ==
    /\ call.pc = "upstream" =>
           \A i \in DOMAIN call.stack :
               /\ call.stack[i].related = <<>> \/ call.stack[i].edges = <<>>
               /\ call.stack[i].related # <<>> => call.stack[i].id \in DeclaredOutputs
               /\ call.stack[i].edges # <<>> => call.stack[i].id \in DeclaredInputs
    /\ call.pc = "downstream" =>
           \A i \in DOMAIN call.stack :
               /\ call.stack[i].related = <<>> \/ call.stack[i].edges = <<>>
               /\ call.stack[i].related # <<>> => call.stack[i].id \in DeclaredInputs
               /\ call.stack[i].edges # <<>> => call.stack[i].id \in DeclaredOutputs

EdgeAdded == call'.pc = call.pc /\ call'.lineageEdges # call.lineageEdges

CrossNodeStepMatches ==
    /\ (call.pc = "upstream" /\ EdgeAdded) =>
           LET edge == Head(Top(call).edges)
           IN /\ Top(call).id \in DeclaredInputs
              /\ edge.type = "port"
              /\ edge.targetPort = Top(call).id
              /\ call'.lineageEdges = call.lineageEdges \cup {EdgeId(edge)}
    /\ (call.pc = "downstream" /\ EdgeAdded) =>
           LET edge == Head(Top(call).edges)
           IN /\ Top(call).id \in DeclaredOutputs
              /\ edge.type = "port"
              /\ edge.sourcePort = Top(call).id
              /\ call'.lineageEdges = call.lineageEdges \cup {EdgeId(edge)}

C17_StepsMutuallyExclusive ==
    /\ []StepsExclusive
    /\ [][CrossNodeStepMatches]_vars

\* going downstream from B.in1: the input's invocation has followed its
\* related port B.out1, whose invocation scans the relationships of B.out1
C17_Witness ==
    /\ call.pc = "downstream"
    /\ Len(call.stack) = 2
    /\ call.stack[1].id = "B.in1"
    /\ call.stack[1].edges = <<>>
    /\ call.stack[2].id = "B.out1"
    /\ call.stack[2].related = <<>>
    /\ call.stack[2].edges # <<>>
    /\ MapHas(call.maps.portToEdges, "B.in1")
    /\ DeclaredRelated("B.out1") # {}

(***************************************************************************)
(* C18: the maps buildLineageMaps returns.  portToEdges holds, under every *)
(* port id that a port relationship names as source or target, exactly the *)
(* port relationships naming it, in list order, and nothing else;          *)
(* nodeToEdges holds, under every node id that a direct relationship names *)
(* as source or target, exactly the direct relationships naming it.  An    *)
(* empty relationship list gives two empty maps and an empty node list an  *)
(* empty portToNode and nodeData; relationships naming undeclared ports or *)
(* nodes are registered all the same.                                      *)
(***************************************************************************)
\* the relationships of the given type with key as an endpoint, in list order
Touching(type, key) ==
    SelectSeq(relationships,
              LAMBDA rel : /\ rel.type = type
                           /\ IF type = "port"
                              THEN key \in {rel.sourcePort, rel.targetPort}
                              ELSE key \in {rel.sourceNode, rel.targetNode})

MapsBuilt == call.fn = "findCompleteLineage" /\ call.pc # "idle" /\ ~IsFalsy(call.startId)

C18_EdgeMapsRegisterBothEnds ==
    MapsBuilt =>
        /\ DOMAIN call.maps.portToEdges =
               {rel.sourcePort : rel \in PortRelationships}
                   \cup {rel.targetPort : rel \in PortRelationships}
        /\ \A p \in DOMAIN call.maps.portToEdges :
               call.maps.portToEdges[p] = Touching("port", p)
        /\ DOMAIN call.maps.nodeToEdges =
               {rel.sourceNode : rel \in DirectRelationships}
                   \cup {rel.targetNode : rel \in DirectRelationships}
        /\ \A n \in DOMAIN call.maps.nodeToEdges :
               call.maps.nodeToEdges[n] = Touching("direct", n)
        /\ relationships = <<>> =>
               call.maps.portToEdges = EmptyMap /\ call.maps.nodeToEdges = EmptyMap
        /\ nodes = <<>> =>
               call.maps.portToNode = EmptyMap /\ call.maps.nodeData = EmptyMap

\* a list with the port relationship A.out1 -> B.in1 and the direct
\* relationship A -> B: each is found from both of its ends in its own map
C18_Witness ==
    /\ MapsBuilt
    /\ Len(relationships) = 2
    /\ \E rel \in PortRelationships :
           /\ rel.sourcePort = "A.out1" /\ rel.targetPort = "B.in1"
           /\ call.maps.portToEdges["A.out1"] = <<rel>>
           /\ call.maps.portToEdges["B.in1"] = <<rel>>
    /\ \E rel \in DirectRelationships :
           /\ rel.sourceNode = "A" /\ rel.targetNode = "B"
           /\ call.maps.nodeToEdges["A"] = <<rel>>
           /\ call.maps.nodeToEdges["B"] = <<rel>>

(***************************************************************************)
(* C19: portToNode as buildLineageMaps leaves it.  Its keys are the port   *)
(* ids found in the input and output lists.  The entries are written node  *)
(* by node in list order, the inputs of a node before its outputs, and a   *)
(* later write replaces an earlier one: the entry of a port id is the node *)
(* and direction of its last occurrence in that order, so a port id that   *)
(* occurs once has the node and direction of that occurrence, and every    *)
(* port id has one owner and one direction.                                *)
(***************************************************************************)
\* the portToNode.set calls of one port list, in order
WritesOf(ports, nodeId, type) ==
    [k \in DOMAIN ports |-> [id |-> ports[k].id, nodeId |-> nodeId, type |-> type]]

\* the portToNode.set calls of the node list, in order
RECURSIVE Writes(_)
Writes(ns) ==
    IF ns = <<>> THEN <<>>
    ELSE WritesOf(Head(ns).data.inputs, Head(ns).id, "input")
             \o WritesOf(Head(ns).data.outputs, Head(ns).id, "output")
             \o Writes(Tail(ns))

LastWrite(p) ==
    LET w == Writes(nodes)
        last == CHOOSE k \in DOMAIN w :
                    /\ w[k].id = p
                    /\ \A j \in DOMAIN w : w[j].id = p => j <= k
    IN [nodeId |-> w[last].nodeId, type |-> w[last].type]

C19_PortToNodeLastWriteWins ==
    MapsBuilt =>
        /\ DOMAIN call.maps.portToNode = {w.id : w \in Range(Writes(nodes))}
        /\ \A p \in DOMAIN call.maps.portToNode :
               /\ call.maps.portToNode[p] = LastWrite(p)
               /\ call.maps.portToNode[p].type \in {"input", "output"}
               /\ call.maps.portToNode[p].nodeId \in NodeIds

\* B before A in the node list: B.in1, an input of B, ends up as an output
\* of A; C.in1, input and output of C, ends up as an output
C19_Witness ==
    /\ MapsBuilt
    /\ Len(nodes) = 3
    /\ nodes[1].id = "B" /\ nodes[2].id = "A"
    /\ "B.in1" \in PortIdsOf(nodes[1].data.inputs)
    /\ "B.in1" \in PortIdsOf(nodes[2].data.outputs)
    /\ call.maps.portToNode["B.in1"] = [nodeId |-> "A", type |-> "output"]
    /\ call.maps.portToNode["C.in1"] = [nodeId |-> "C", type |-> "output"]

(***************************************************************************)
(* C20: the id of a column relationship is col-edge- followed by its       *)
(* position in the relationship list, counted from 0.  Different positions *)
(* have different ids; the maps built again from the same list carry the   *)
(* same ids; the edge the column canvas renders for a relationship has the *)
(* id the engine gave it, whichever columns are visible; and every edge id *)
(* in a lineage result is the id of the relationship at that position,     *)
(* whose two columns are in the result.                                    *)
(***************************************************************************)
ColumnMapsBuilt ==
    call.fn = "findCompleteColumnLineage" /\ call.pc # "idle" /\ ~IsFalsy(call.startId)

\* the edge data the engine keeps for the relationship at position i
EngineEdge(i) ==
    [id |-> ColEdgeId(i - 1),
     sourceColumn |-> columnRelationships[i].sourceColumn,
     targetColumn |-> columnRelationships[i].targetColumn]

\* what the ports may have reported as visible
VisibleChoices ==
    {EmptyMap,
     [p \in {"S"} |-> {"c1"}],
     [p \in {"S", "D"} |-> IF p = "S" THEN {"c1", "c3"} ELSE {}],
     [p \in {"U", "S", "D"} |-> IF p = "U" THEN {"c0"} ELSE IF p = "S" THEN {"c3"} ELSE {"c2"}]}

C20_ColumnEdgeIdsFollowIndex ==
    /\ \A i, j \in DOMAIN columnRelationships : i # j => ColEdgeId(i - 1) # ColEdgeId(j - 1)
    /\ ColumnMapsBuilt =>
           /\ \A i \in DOMAIN columnRelationships :
                  /\ EngineEdge(i) \in Range(call.maps.columnToEdges[EngineEdge(i).sourceColumn])
                  /\ EngineEdge(i) \in Range(call.maps.columnToEdges[EngineEdge(i).targetColumn])
           /\ \A c \in DOMAIN call.maps.columnToEdges :
                  \A e \in Range(call.maps.columnToEdges[c]) :
                      \E i \in DOMAIN columnRelationships : e = EngineEdge(i)
           /\ buildColumnLineageMaps(columnRelationships, allPorts).columnToEdges
                  = call.maps.columnToEdges
           /\ \A visibleColumns \in VisibleChoices :
                  \A e \in Range(buildEdgesFromRelationships(columnRelationships, allPorts,
                                                             visibleColumns)) :
                      \E i \in DOMAIN columnRelationships :
                          /\ e.id = EngineEdge(i).id
                          /\ e.sourceHandle = EngineEdge(i).sourceColumn
                          /\ e.targetHandle = EngineEdge(i).targetColumn
    /\ ReturnedFor("findCompleteColumnLineage") =>
           \A id \in call.result.edges :
               \E i \in DOMAIN columnRelationships :
                   /\ id = ColEdgeId(i - 1)
                   /\ columnRelationships[i].sourceColumn \in call.result.columns
                   /\ columnRelationships[i].targetColumn \in call.result.columns

\* c0 -> c1 and c1 -> c2 with c3 hidden: the canvas renders both with the
\* ids col-edge-0 and col-edge-1, and the lineage of c1 holds both
C20_Witness ==
    /\ Returned("findCompleteColumnLineage")
    /\ call.startId = "c1"
    /\ columnRelationships = <<ColRel("c0", "c1"), ColRel("c1", "c2")>>
    /\ allPorts = ScenarioAllPorts
    /\ call.result.edges = {"col-edge-0", "col-edge-1"}
    /\ LET built == buildEdgesFromRelationships(columnRelationships, allPorts,
                                                [p \in {"S"} |-> {"c1"}])
       IN /\ Len(built) = 2
          /\ built[2].id = "col-edge-1"
          /\ built[2].sourceHandle = "c1" /\ built[2].targetHandle = "c2"

(***************************************************************************)
(* C21: column traversal follows the column relationships and nothing      *)
(* else.  The upstream column set of c is c and every column from which c  *)
(* is reachable along relationships source -> target; the downstream       *)
(* column set is c and every column reachable from c; the upstream edge    *)
(* set is the ids of the relationships whose target column is in the       *)
(* upstream column set, the downstream edge set the ids of those whose     *)
(* source column is in the downstream column set.  Two columns of one port *)
(* are in each other's lineage only through relationships.                 *)
(***************************************************************************)
ColumnRelationshipSet == Range(columnRelationships)

\* the columns from which a column of S is reachable
RECURSIVE ColumnAncestors(_)
ColumnAncestors(S) ==
    LET more == S \cup {rel.sourceColumn :
                           rel \in {r \in ColumnRelationshipSet : r.targetColumn \in S}}
    IN IF more = S THEN S ELSE ColumnAncestors(more)

\* the columns reachable from a column of S
RECURSIVE ColumnDescendants(_)
ColumnDescendants(S) ==
    LET more == S \cup {rel.targetColumn :
                           rel \in {r \in ColumnRelationshipSet : r.sourceColumn \in S}}
    IN IF more = S THEN S ELSE ColumnDescendants(more)

C21_ColumnTraversalFollowsRelationships ==
    ReturnedFor("findCompleteColumnLineage") =>
        /\ call.result.upstream.columns = ColumnAncestors({call.startId})
        /\ call.result.downstream.columns = ColumnDescendants({call.startId})
        /\ call.result.upstream.edges =
               {ColEdgeId(i - 1) : i \in {k \in DOMAIN columnRelationships :
                   columnRelationships[k].targetColumn \in call.result.upstream.columns}}
        /\ call.result.downstream.edges =
               {ColEdgeId(i - 1) : i \in {k \in DOMAIN columnRelationships :
                   columnRelationships[k].sourceColumn \in call.result.downstream.columns}}

\* c0 -> c1, c1 -> c2 from c1: c3, the other column of the selected port,
\* is in neither half; c0 is upstream only, c2 downstream only
C21_Witness ==
    /\ Returned("findCompleteColumnLineage")
    /\ call.startId = "c1"
    /\ columnRelationships = <<ColRel("c0", "c1"), ColRel("c1", "c2")>>
    /\ {"c1", "c3"} \subseteq ColumnIdsOf(allPorts.selectedPort)
    /\ call.result.upstream.columns = {"c0", "c1"}
    /\ call.result.downstream.columns = {"c1", "c2"}
    /\ "c3" \notin call.result.columns

(***************************************************************************)
(* C22: the column lookups cover exactly the ports passed in.  columnToPort *)
(* has an entry for a column exactly when the selected port or one of the  *)
(* supplied upstream or downstream ports lists it, and the entry names     *)
(* that port; portData has exactly the supplied ports.  The port set of a  *)
(* column lineage result, and of each of its halves, holds ids of supplied *)
(* ports only, and a supplied port is in it exactly when one of its        *)
(* columns is in the column set.  Column ids are unique among the ports.   *)
(***************************************************************************)
PassedPorts ==
    {allPorts.selectedPort} \cup Range(allPorts.upstreamPorts)
        \cup Range(allPorts.downstreamPorts)

ListedColumns == UNION {ColumnIdsOf(port) : port \in PassedPorts}

PortsRestricted(sets) ==
    /\ sets.ports \subseteq {port.portId : port \in PassedPorts}
    /\ \A port \in PassedPorts :
           port.portId \in sets.ports <=> ColumnIdsOf(port) \cap sets.columns # {}

C22_ColumnLookupsRestrictedToPorts ==
    /\ ColumnMapsBuilt =>
           /\ DOMAIN call.maps.columnToPort = ListedColumns
           /\ \A c \in DOMAIN call.maps.columnToPort :
                  \E port \in PassedPorts :
                      /\ c \in ColumnIdsOf(port)
                      /\ call.maps.columnToPort[c] =
                             [portId |-> port.portId, nodeId |-> port.nodeId]
           /\ DOMAIN call.maps.portData = {port.portId : port \in PassedPorts}
    /\ ReturnedFor("findCompleteColumnLineage") =>
           /\ PortsRestricted(call.result)
           /\ PortsRestricted(call.result.upstream)
           /\ PortsRestricted(call.result.downstream)

\* c1 -> c2 with no downstream port supplied: c2 has no entry, the lineage
\* of c1 holds the column c2 and the selected port only
C22_Witness ==
    /\ Returned("findCompleteColumnLineage")
    /\ call.startId = "c1"
    /\ allPorts.downstreamPorts = <<>>
    /\ ColRel("c1", "c2") \in Range(columnRelationships)
    /\ "c2" \notin DOMAIN call.maps.columnToPort
    /\ "c2" \in call.result.columns
    /\ call.result.downstream.ports = {"S"}

(***************************************************************************)
(* The data service, mockApi.  getFlowData serves the node list and the    *)
(* relationship list of the inputs; getColumnLineage(portId) looks the     *)
(* port up in its table of column data and throws when it has none.        *)
(***************************************************************************)
\* an awaited call that resolved with a value / rejected with an Error
Resolved(value) == [threw |-> FALSE, message |-> Null, value |-> value]
Rejected(message) == [threw |-> TRUE, message |-> message, value |-> Null]

\* the rejection of fetch() when the service cannot be reached
FetchFailure == Rejected("Failed to fetch")

\* mockApi.getFlowData()
getFlowData == Resolved([nodes |-> nodes, relationships |-> relationships])

\* const columnData: Record<string, ColumnPort>: the ports that have column data
ColumnDataTable ==
    MapSet(MapSet(MapSet(EmptyMap,
        "A.out1", ColumnPort("A.out1", "A", <<"c0">>)),
        "B.in1", ColumnPort("B.in1", "B", <<"c1", "c3">>)),
        "C.in1", ColumnPort("C.in1", "C", <<"c2">>))

\* relationships.forEach: the ports with column data on the other end of the
\* port relationships into (upstream) and out of (downstream) portId
NeighbourPorts(portId, rels, upstream) ==
    LET near(rel) == IF upstream THEN rel.targetPort ELSE rel.sourcePort
        far(rel) == IF upstream THEN rel.sourcePort ELSE rel.targetPort
        found == SelectSeq(rels, LAMBDA rel :
                     /\ rel.type = "port"
                     /\ near(rel) = portId
                     /\ MapHas(ColumnDataTable, far(rel)))
    IN [i \in DOMAIN found |-> ColumnDataTable[far(found[i])]]

\* mockApi.getColumnLineage(portId)
getColumnLineage(portId) ==
    IF ~MapHas(ColumnDataTable, portId)
    THEN Rejected("Port " \o portId \o " not found")
    ELSE Resolved([selectedPort |-> ColumnDataTable[portId],
                   upstreamPorts |-> NeighbourPorts(portId, getFlowData.value.relationships, TRUE),
                   downstreamPorts |-> NeighbourPorts(portId, getFlowData.value.relationships, FALSE),
                   columnRelationships |-> columnRelationships])

(***************************************************************************)
(* FlowCanvas: loadFlowData, the effect run once after mounting.           *)
(***************************************************************************)
\* try { setLoading(true); setError(null); const data = await mockApi.getFlowData()
loadFlowData(fc) == [fc EXCEPT !.loading = TRUE, !.error = Null, !.pc = "getFlowData"]

\* flowLoadCaught without the finally block
flowLoadCaught_NoFinally(fc, err) ==
    [fc EXCEPT !.error = err.message, !.pc = "done", !.threw = TRUE]

\* catch (err) { setError(err instanceof Error ? err.message : ...) } finally { setLoading(false) }
flowLoadCaught(fc, err) ==
    [fc EXCEPT !.error = err.message, !.loading = FALSE, !.pc = "done", !.threw = TRUE]

\* getFlowData() has settled: setRelationships(data.relationships || []) and on
\* to await calculateLayout(...), or the catch block
flowDataSettled(fc, outcome) ==
    IF outcome.threw THEN flowLoadCaught(fc, outcome)
    ELSE [fc EXCEPT !.relationships = outcome.value.relationships, !.pc = "calculateLayout"]

\* calculateLayout() has settled: setNodes(layoutNodes), finally { setLoading(false) };
\* the layout gives the nodes their positions, which are left out
flowLayoutSettled(fc, outcome) ==
    IF outcome.threw THEN flowLoadCaught(fc, outcome)
    ELSE [fc EXCEPT !.nodes = outcome.value, !.loading = FALSE, !.pc = "done"]

(***************************************************************************)
(* ColumnLineageCanvas: loadColumnLineage, the effect run after mounting.  *)
(***************************************************************************)
\* try { setLoading(true); setError(null); const data = await mockApi.getColumnLineage(initialPortId)
loadColumnLineage(cc) == [cc EXCEPT !.loading = TRUE, !.error = Null, !.pc = "getColumnLineage"]

\* catch (err) { setError(err.message) } finally { setLoading(false) }
columnLoadCaught(cc, err) ==
    [cc EXCEPT !.error = err.message, !.loading = FALSE, !.pc = "done", !.threw = TRUE]

\* newNodes: a node per upstream port, the selected port, a node per
\* downstream port, in this order
newNodes(data) ==
    LET portNode(port) == [id |-> port.portId]
    IN [i \in DOMAIN data.upstreamPorts |-> portNode(data.upstreamPorts[i])]
         \o <<portNode(data.selectedPort)>>
         \o [i \in DOMAIN data.downstreamPorts |-> portNode(data.downstreamPorts[i])]

\* getColumnLineage() has settled: setColumnData(data) and on to
\* await getLayoutedNodes(newNodes, ...), or the catch block
columnDataSettled(cc, outcome) ==
    IF outcome.threw THEN columnLoadCaught(cc, outcome)
    ELSE [cc EXCEPT !.columnData = outcome.value, !.pc = "getLayoutedNodes"]

\* getLayoutedNodes() has settled: setNodes(layoutedNodes), finally { setLoading(false) }
columnLayoutSettled(cc, outcome) ==
    IF outcome.threw THEN columnLoadCaught(cc, outcome)
    ELSE [cc EXCEPT !.nodes = outcome.value, !.loading = FALSE, !.pc = "done"]

(***************************************************************************)
(* FlowCanvas: selection.  The lineage functions are synchronous, so a     *)
(* handler runs the call from entry to return.                             *)
(***************************************************************************)
Handled(fc, handler, id) ==
    [handler |-> handler, id |-> id, selectedNode |-> fc.selectedNode]

\* the lineage handlePortSelect stores for a port id
portLineage(fc, portId) == runAlone(findCompleteLineage(portId, fc.relationships, fc.nodes)).result

\* the lineage handleNodeClick stores for a node id: the node lineage with
\* empty ports, upstream and downstream
nodeLineage(fc, nodeId) ==
    LET found == runAlone(findNodeLineage(nodeId, fc.relationships, fc.nodes)).result
    IN [nodes |-> found.nodes, edges |-> found.edges, ports |-> {},
        upstream |-> EmptySets, downstream |-> EmptySets]

\* handlePortSelect that always selects the port it is given
handlePortSelect_NoToggle(fc, portId) ==
    [fc EXCEPT !.selectedNode = portId,
               !.lineage = IF IsFalsy(portId) THEN EmptyComplete ELSE portLineage(fc, portId),
               !.last = Handled(fc, "handlePortSelect", portId)]

\* handlePortSelect(portId)
handlePortSelect(fc, portId) ==
    LET newSelection == IF fc.selectedNode = portId THEN Null ELSE portId
    IN [fc EXCEPT !.selectedNode = newSelection,
                  !.lineage = IF ~IsFalsy(newSelection)
                              THEN portLineage(fc, newSelection)
                              ELSE EmptyComplete,
                  !.last = Handled(fc, "handlePortSelect", portId)]

\* handleNodeClick(nodeId)
handleNodeClick(fc, nodeId) ==
    LET newSelection == IF fc.selectedNode = nodeId THEN Null ELSE nodeId
    IN [fc EXCEPT !.selectedNode = newSelection,
                  !.lineage = IF ~IsFalsy(newSelection)
                              THEN nodeLineage(fc, newSelection)
                              ELSE EmptyComplete,
                  !.last = Handled(fc, "handleNodeClick", nodeId)]

\* the canvas renders its nodes: neither the loading nor the error screen
Rendered(fc) == ~fc.loading /\ IsFalsy(fc.error)

CanvasNodeIds(fc) == {node.id : node \in Range(fc.nodes)}

CanvasInputIds(node) == {node.data.inputs[i].id : i \in DOMAIN node.data.inputs}
CanvasOutputIds(node) == {node.data.outputs[i].id : i \in DOMAIN node.data.outputs}

\* the ids of the ports shown in the nodes of the canvas
CanvasPortIds(fc) ==
    UNION {CanvasInputIds(node) \cup CanvasOutputIds(node) : node \in Range(fc.nodes)}

(***************************************************************************)
(* The canvases: loading and selection.                                    *)
(***************************************************************************)
Engine == <<call, concurrent>>

\* the load effect of FlowCanvas runs
LoadFlowData ==
    /\ flowCanvas.pc = "mounted"
    /\ flowCanvas' = loadFlowData(flowCanvas)
    /\ UNCHANGED <<Inputs, Engine, columnCanvas>>

GetFlowDataResolves ==
    /\ flowCanvas.pc = "getFlowData"
    /\ flowCanvas' = flowDataSettled(flowCanvas, getFlowData)
    /\ UNCHANGED <<Inputs, Engine, columnCanvas>>

GetFlowDataRejects ==
    /\ flowCanvas.pc = "getFlowData"
    /\ flowCanvas' = flowDataSettled(flowCanvas, FetchFailure)
    /\ UNCHANGED <<Inputs, Engine, columnCanvas>>

\* the layout keeps the nodes and their order
CalculateLayoutResolves ==
    /\ flowCanvas.pc = "calculateLayout"
    /\ flowCanvas' = flowLayoutSettled(flowCanvas, Resolved(getFlowData.value.nodes))
    /\ UNCHANGED <<Inputs, Engine, columnCanvas>>

\* an exception between the two awaits or inside the layout
CalculateLayoutRejects ==
    /\ flowCanvas.pc = "calculateLayout"
    /\ flowCanvas' = flowLayoutSettled(flowCanvas, Rejected("layout failed"))
    /\ UNCHANGED <<Inputs, Engine, columnCanvas>>

\* the load effect of ColumnLineageCanvas runs
LoadColumnLineage ==
    /\ columnCanvas.pc = "mounted"
    /\ columnCanvas' = loadColumnLineage(columnCanvas)
    /\ UNCHANGED <<Inputs, Engine, flowCanvas>>

GetColumnLineageSettles ==
    /\ columnCanvas.pc = "getColumnLineage"
    /\ columnCanvas' = columnDataSettled(columnCanvas, getColumnLineage(columnCanvas.initialPortId))
    /\ UNCHANGED <<Inputs, Engine, flowCanvas>>

GetLayoutedNodesResolves ==
    /\ columnCanvas.pc = "getLayoutedNodes"
    /\ columnCanvas' = columnLayoutSettled(columnCanvas, Resolved(newNodes(columnCanvas.columnData)))
    /\ UNCHANGED <<Inputs, Engine, flowCanvas>>

GetLayoutedNodesRejects ==
    /\ columnCanvas.pc = "getLayoutedNodes"
    /\ columnCanvas' = columnLayoutSettled(columnCanvas, Rejected("layout failed"))
    /\ UNCHANGED <<Inputs, Engine, flowCanvas>>

\* a click on a port of a rendered node; DataProductNode passes null for
\* the port that is selected
HandlePortSelect ==
    /\ Rendered(flowCanvas)
    /\ \E portId \in CanvasPortIds(flowCanvas) \cup {Null} :
           flowCanvas' = handlePortSelect(flowCanvas, portId)
    /\ UNCHANGED <<Inputs, Engine, columnCanvas>>

\* a click on a rendered node
HandleNodeClick ==
    /\ Rendered(flowCanvas)
    /\ \E nodeId \in CanvasNodeIds(flowCanvas) :
           flowCanvas' = handleNodeClick(flowCanvas, nodeId)
    /\ UNCHANGED <<Inputs, Engine, columnCanvas>>

FlowLoadStep ==
    \/ LoadFlowData
    \/ GetFlowDataResolves
    \/ GetFlowDataRejects
    \/ CalculateLayoutResolves
    \/ CalculateLayoutRejects

ColumnLoadStep ==
    \/ LoadColumnLineage
    \/ GetColumnLineageSettles
    \/ GetLayoutedNodesResolves
    \/ GetLayoutedNodesRejects

\* the data served: a cycle of port relationships with related ports and a
\* direct relationship, the plain chain, or direct relationships through the
\* data product Z that is not in the node list; the column view is opened
\* from any port, with column data or without
CanvasInit ==
    /\ call = IdleCall
    /\ concurrent = IdleCall
    /\ flowCanvas = InitialFlowCanvas
    /\ \E portId \in DeclaredPortIds : columnCanvas = InitialColumnCanvas(portId)
    /\ \/ /\ relationships = SubList(RelCandidates, {1, 3, 7})
          /\ nodes = NodesWith(SubList(RelatedCandidates, {1, 2, 3}))
       \/ /\ relationships = ChainRelationships
          /\ nodes = ChainNodes
       \/ /\ relationships = SubList(RelCandidates, {7, 8, 9})
          /\ nodes = ChainNodes
    /\ allPorts = ScenarioAllPorts
    /\ columnRelationships = SubList(ColRelCandidates, {1, 2})

CanvasNext ==
    \/ FlowLoadStep
    \/ ColumnLoadStep
    \/ HandlePortSelect
    \/ HandleNodeClick

\* an awaited call settles and an effect runs: the event loop leaves no
\* enabled continuation waiting for ever
CanvasSpec ==
    /\ CanvasInit
    /\ [][CanvasNext]_vars
    /\ WF_vars(FlowLoadStep)
    /\ WF_vars(ColumnLoadStep)

(***************************************************************************)
(* C23: in the flow canvas the selected id toggles between null and some   *)
(* id.  After any sequence of handlePortSelect and handleNodeClick calls,  *)
(* a call given the id that was selected leaves the selection null and the *)
(* stored lineage all-empty; a call given another id leaves that id        *)
(* selected and the stored lineage equal to the lineage computed for it    *)
(* (findCompleteLineage for a port, findNodeLineage with no ports for a    *)
(* node); and in every reachable state the selection is null exactly when  *)
(* the node set and the port set of the stored lineage are both empty.     *)
(***************************************************************************)
SelectionHandlers == {"handlePortSelect", "handleNodeClick"}

\* the lineage of id computed on the data served, by the function the
\* handler calls
ComputedFor(handler, id) ==
    IF handler = "handlePortSelect"
    THEN runAlone(startCall("findCompleteLineage", id)).result
    ELSE LET found == runAlone(startCall("findNodeLineage", id)).result
         IN [EmptyComplete EXCEPT !.nodes = found.nodes, !.edges = found.edges]

C23_SelectionToggles ==
    /\ flowCanvas.selectedNode = Null
           <=> (flowCanvas.lineage.nodes = {} /\ flowCanvas.lineage.ports = {})
    /\ flowCanvas.last.handler \in SelectionHandlers =>
           IF flowCanvas.last.id = flowCanvas.last.selectedNode \/ flowCanvas.last.id = Null
           THEN /\ flowCanvas.selectedNode = Null
                /\ flowCanvas.lineage = EmptyComplete
           ELSE /\ flowCanvas.selectedNode = flowCanvas.last.id
                /\ flowCanvas.lineage = ComputedFor(flowCanvas.last.handler, flowCanvas.last.id)

\* the port that was selected has been clicked again, in a canvas where a
\* port relationship gives that port a lineage beyond itself
C23_Witness ==
    /\ flowCanvas.last.handler = "handlePortSelect"
    /\ flowCanvas.last.id = "B.in1"
    /\ flowCanvas.last.selectedNode = "B.in1"
    /\ flowCanvas.selectedNode = Null
    /\ flowCanvas.lineage = EmptyComplete
    /\ Cardinality(ComputedFor("handlePortSelect", "B.in1").ports) > 1

(***************************************************************************)
(* FlowCanvas: expansion and the edge list.  An edge is                    *)
(* {id, source, target, sourceHandle, targetHandle}, a handle that is not  *)
(* set being null; type and style are display attributes and left out.     *)
(***************************************************************************)
ITEMS_PER_PAGE == 5     \* DataProductNode: ports shown on a page
MaxManualEdges == 1     \* edges drawn by hand

Edge(id, source, sourceHandle, target, targetHandle) ==
    [id |-> id, source |-> source, sourceHandle |-> sourceHandle,
     target |-> target, targetHandle |-> targetHandle]

\* expandedNodes[nodeId], as a truth value
IsExpanded(fc, nodeId) == nodeId \in fc.expandedNodes

\* visiblePorts[nodeId]?.inputs?.includes(portId) (outputs likewise)
InputVisible(fc, nodeId, portId) ==
    MapHas(fc.visiblePorts, nodeId) /\ portId \in Range(fc.visiblePorts[nodeId].inputs)

OutputVisible(fc, nodeId, portId) ==
    MapHas(fc.visiblePorts, nodeId) /\ portId \in Range(fc.visiblePorts[nodeId].outputs)

\* RelationshipEdge that shows a direct edge only when both nodes are collapsed
RelationshipEdge_BothCollapsed(fc, rel) ==
    IF rel.type = "direct"
    THEN IF ~IsExpanded(fc, rel.sourceNode) /\ ~IsExpanded(fc, rel.targetNode)
         THEN <<Edge("edge-" \o rel.id, rel.sourceNode, Null, rel.targetNode, Null)>>
         ELSE <<>>
    ELSE IF /\ IsExpanded(fc, rel.sourceNode) /\ IsExpanded(fc, rel.targetNode)
            /\ OutputVisible(fc, rel.sourceNode, rel.sourcePort)
            /\ InputVisible(fc, rel.targetNode, rel.targetPort)
         THEN <<Edge("edge-" \o rel.id, rel.sourceNode, rel.sourcePort,
                     rel.targetNode, rel.targetPort)>>
         ELSE <<>>

\* relationships.forEach: the edge pushed for rel, if any
RelationshipEdge(fc, rel) ==
    IF rel.type = "direct"
    THEN IF ~IsExpanded(fc, rel.sourceNode) \/ ~IsExpanded(fc, rel.targetNode)
         THEN <<Edge("edge-" \o rel.id, rel.sourceNode, Null, rel.targetNode, Null)>>
         ELSE <<>>
    ELSE IF /\ IsExpanded(fc, rel.sourceNode) /\ IsExpanded(fc, rel.targetNode)
            /\ OutputVisible(fc, rel.sourceNode, rel.sourcePort)
            /\ InputVisible(fc, rel.targetNode, rel.targetPort)
         THEN <<Edge("edge-" \o rel.id, rel.sourceNode, rel.sourcePort,
                     rel.targetNode, rel.targetPort)>>
         ELSE <<>>

\* the concatenation of f(s[1]), ..., f(s[Len(s)])
FlatMap(s, f(_)) ==
    LET F[i \in 0..Len(s)] == IF i = 0 THEN <<>> ELSE F[i - 1] \o f(s[i])
    IN F[Len(s)]

\* nodes.forEach: the internal edges of an expanded node, from each visible
\* input to its related ports that are visible outputs
InternalEdges(fc, node) ==
    LET ofInput(input) ==
            IF ~InputVisible(fc, node.id, input.id) THEN <<>>
            ELSE LET shown == SelectSeq(input.relatedPorts,
                                  LAMBDA relatedPortId : OutputVisible(fc, node.id, relatedPortId))
                 IN [i \in DOMAIN shown |->
                        Edge("internal-" \o node.id \o "-" \o input.id \o "-" \o shown[i],
                             node.id, input.id \o "-internal",
                             node.id, shown[i] \o "-internal")]
    IN IF IsExpanded(fc, node.id) THEN FlatMap(node.data.inputs, ofInput) ELSE <<>>

\* manualEdges.forEach: a manual edge is pushed unless an edge of its id is
\* in the list already
RECURSIVE WithManualEdges(_, _)
WithManualEdges(builtEdges, manual) ==
    IF manual = <<>> THEN builtEdges
    ELSE WithManualEdges(
             IF \E i \in DOMAIN builtEdges : builtEdges[i].id = Head(manual).id
             THEN builtEdges ELSE Append(builtEdges, Head(manual)),
             Tail(manual))

\* FlowCanvas.buildEdgesFromRelationships()
buildFlowEdges(fc) ==
    WithManualEdges(
        FlatMap(fc.relationships, LAMBDA rel : RelationshipEdge(fc, rel))
            \o FlatMap(fc.nodes, LAMBDA node : InternalEdges(fc, node)),
        fc.manualEdges)

\* the debounced effect: setEdges(buildEdgesFromRelationships())
rebuildEdges(fc) == [fc EXCEPT !.edges = buildFlowEdges(fc)]

\* edges.forEach: the other ends of the edges without handles at nodeId
ConnectedNodeIds(fc, nodeId) ==
    LET direct == {e \in Range(fc.edges) :
                      IsFalsy(e.sourceHandle) /\ IsFalsy(e.targetHandle)}
    IN {e.target : e \in {d \in direct : d.source = nodeId}}
         \cup {e.source : e \in {d \in direct : d.source # nodeId /\ d.target = nodeId}}

\* handleToggleExpansion(nodeId)
handleToggleExpansion(fc, nodeId) ==
    LET isExpanding == ~IsExpanded(fc, nodeId)
    IN [fc EXCEPT !.expandedNodes =
            IF isExpanding
            THEN (@ \cup {nodeId}) \cup ConnectedNodeIds(fc, nodeId)
            ELSE @ \ {nodeId}]

\* handleVisiblePortsChange(nodeId, visibleInputs, visibleOutputs)
handleVisiblePortsChange(fc, nodeId, visibleInputs, visibleOutputs) ==
    [fc EXCEPT !.visiblePorts =
        MapSet(@, nodeId, [inputs |-> visibleInputs, outputs |-> visibleOutputs])]

\* connection.sourceHandle || 'default'
HandleOrDefault(handle) == IF IsFalsy(handle) THEN "default" ELSE handle

\* handleConnect(connection)
handleConnect(fc, connection) ==
    [fc EXCEPT !.manualEdges = Append(@,
        Edge("manual-" \o connection.source \o "-" \o HandleOrDefault(connection.sourceHandle)
                 \o "-" \o connection.target \o "-" \o HandleOrDefault(connection.targetHandle),
             connection.source, connection.sourceHandle,
             connection.target, connection.targetHandle))]

\* edge.id.startsWith('manual-')
IsManual(edge) == Len(edge.id) >= 7 /\ SubSeq(edge.id, 1, 7) = "manual-"

\* handleEdgesDelete([edge]): only manual edges are deleted
handleEdgesDelete(fc, edge) ==
    IF IsManual(edge)
    THEN [fc EXCEPT !.manualEdges = SelectSeq(@, LAMBDA e : e.id # edge.id)]
    ELSE fc

\* DataProductNode's effect: an expanded node reports the ports of its
\* page (the first page, the nodes having no more than one page of ports),
\* a collapsed node reports none
PageOf(ports) ==
    LET shown == SubSeq(ports, 1, IF Len(ports) < ITEMS_PER_PAGE THEN Len(ports) ELSE ITEMS_PER_PAGE)
    IN [i \in DOMAIN shown |-> shown[i].id]

reportVisiblePorts(fc, node) ==
    IF IsExpanded(fc, node.id)
    THEN handleVisiblePortsChange(fc, node.id, PageOf(node.data.inputs), PageOf(node.data.outputs))
    ELSE handleVisiblePortsChange(fc, node.id, <<>>, <<>>)

\* the connections drawn by hand: from the handle of A.out1 to the handle of
\* C.in1, both nodes being expanded, and from the node handle of A to the
\* node handle of C, both being collapsed
Connections(fc) ==
    {c \in {[source |-> "A", sourceHandle |-> "A.out1", target |-> "C", targetHandle |-> "C.in1"],
            [source |-> "A", sourceHandle |-> Null, target |-> "C", targetHandle |-> Null]} :
        /\ {c.source, c.target} \subseteq CanvasNodeIds(fc)
        /\ IsExpanded(fc, c.source) <=> ~IsFalsy(c.sourceHandle)
        /\ IsExpanded(fc, c.target) <=> ~IsFalsy(c.targetHandle)}

HandleToggleExpansion ==
    /\ Rendered(flowCanvas)
    /\ \E nodeId \in CanvasNodeIds(flowCanvas) :
           flowCanvas' = handleToggleExpansion(flowCanvas, nodeId)
    /\ UNCHANGED <<Inputs, Engine, columnCanvas>>

VisiblePortsChange ==
    /\ Rendered(flowCanvas)
    /\ \E node \in Range(flowCanvas.nodes) :
           flowCanvas' = reportVisiblePorts(flowCanvas, node)
    /\ UNCHANGED <<Inputs, Engine, columnCanvas>>

HandleConnect ==
    /\ Rendered(flowCanvas)
    /\ Len(flowCanvas.manualEdges) < MaxManualEdges
    /\ \E connection \in Connections(flowCanvas) :
           flowCanvas' = handleConnect(flowCanvas, connection)
    /\ UNCHANGED <<Inputs, Engine, columnCanvas>>

HandleEdgesDelete ==
    /\ Rendered(flowCanvas)
    /\ \E edge \in Range(flowCanvas.edges) :
           flowCanvas' = handleEdgesDelete(flowCanvas, edge)
    /\ UNCHANGED <<Inputs, Engine, columnCanvas>>

\* the timer of the edge effect fires
RebuildEdges ==
    /\ flowCanvas' = rebuildEdges(flowCanvas)
    /\ UNCHANGED <<Inputs, Engine, columnCanvas>>

\* the flow canvas once its load has ended well, before the first rebuild of
\* the edges; the data served hold port and direct relationships between
\* the same products and a related-port declaration, or direct
\* relationships through the data product Z that is not in the node list
ExpansionInit ==
    /\ call = IdleCall
    /\ concurrent = IdleCall
    /\ columnCanvas = InitialColumnCanvas(Null)
    /\ \/ /\ relationships = SubList(RelCandidates, {1, 2, 7})
          /\ nodes = NodesWith(SubList(RelatedCandidates, {3}))
       \/ /\ relationships = SubList(RelCandidates, {7, 8, 9})
          /\ nodes = ChainNodes
    /\ allPorts = ScenarioAllPorts
    /\ columnRelationships = ScenarioColumnRelationships
    /\ flowCanvas = flowLayoutSettled(
                        flowDataSettled(loadFlowData(InitialFlowCanvas), getFlowData),
                        Resolved(getFlowData.value.nodes))

ExpansionNext ==
    \/ HandleToggleExpansion
    \/ VisiblePortsChange
    \/ HandleConnect
    \/ HandleEdgesDelete
    \/ RebuildEdges

ExpansionSpec == ExpansionInit /\ [][ExpansionNext]_vars

(***************************************************************************)
(* C24: for every expansion and visible-port state, the edge list built by *)
(* the flow canvas holds the edge of a port relationship only if both its  *)
(* nodes are expanded, its source port is among the visible outputs of the *)
(* source node and its target port among the visible inputs of the target  *)
(* node, and holds the edge of a direct relationship exactly when at least *)
(* one of its two nodes is collapsed.  A port-to-port edge of the list     *)
(* touches a collapsed node only if it is an edge drawn by hand: manual    *)
(* edges are kept in the list whatever the expansion state.                *)
(***************************************************************************)
BuiltEdges == buildFlowEdges(flowCanvas)

Collapsed(nodeId) == nodeId \notin flowCanvas.expandedNodes

VisibleIn(nodeId, side, portId) ==
    /\ nodeId \in DOMAIN flowCanvas.visiblePorts
    /\ \E i \in DOMAIN flowCanvas.visiblePorts[nodeId][side] :
           flowCanvas.visiblePorts[nodeId][side][i] = portId

HasEdgeOf(rel, list) == \E i \in DOMAIN list : list[i].id = "edge-" \o rel.id

PortToPort(e) == e.sourceHandle # Null /\ e.targetHandle # Null

TouchesCollapsed(e) == Collapsed(e.source) \/ Collapsed(e.target)

RelationshipEdgesFollowExpansion ==
    \A rel \in Range(flowCanvas.relationships) :
        IF rel.type = "port"
        THEN HasEdgeOf(rel, BuiltEdges) =>
                 /\ ~Collapsed(rel.sourceNode) /\ ~Collapsed(rel.targetNode)
                 /\ VisibleIn(rel.sourceNode, "outputs", rel.sourcePort)
                 /\ VisibleIn(rel.targetNode, "inputs", rel.targetPort)
        ELSE HasEdgeOf(rel, BuiltEdges) <=>
                 (Collapsed(rel.sourceNode) \/ Collapsed(rel.targetNode))

FlagsChanged ==
    (flowCanvas'.expandedNodes \ flowCanvas.expandedNodes)
        \cup (flowCanvas.expandedNodes \ flowCanvas'.expandedNodes)

C25_IndependentExpansion ==
    [][flowCanvas'.expandedNodes # flowCanvas.expandedNodes =>
           \E nodeId \in CanvasNodeIds(flowCanvas) : FlagsChanged = {nodeId}]_vars

(***************************************************************************)
(* C26: every data load started by a canvas eventually ends with loading   *)
(* false, whether the loader resolves or throws; the error state is        *)
(* non-null exactly when the load threw (mockApi.getColumnLineage on a     *)
(* port id that has no column data, a failed fetch, an exception after the *)
(* data arrived), and in that case the node list is as it was before the   *)
(* load, that is empty.                                                    *)
(***************************************************************************)
LoadOutcomeRight(canvas) ==
    /\ canvas.error # Null <=> canvas.threw
    /\ canvas.threw => canvas.nodes = <<>>
    /\ canvas.pc = "done" => ~canvas.loading

Loading(canvas) == canvas.pc \notin {"mounted", "done"}

LoadEnded(canvas) == canvas.pc = "done" /\ ~canvas.loading

C26_LoadsEnd ==
    /\ [](LoadOutcomeRight(flowCanvas) /\ LoadOutcomeRight(columnCanvas))
    /\ Loading(flowCanvas) ~> LoadEnded(flowCanvas)
    /\ Loading(columnCanvas) ~> LoadEnded(columnCanvas)

\* the column view was opened from A.in1, which has no column data, and
\* getColumnLineage threw; the flow canvas got its data and then failed in
\* the layout: both loads have ended, with an error and without nodes
C26_Witness ==
    /\ columnCanvas.initialPortId = "A.in1"
    /\ LoadEnded(columnCanvas)
    /\ columnCanvas.error = "Port A.in1 not found"
    /\ columnCanvas.nodes = <<>>
    /\ LoadEnded(flowCanvas)
    /\ flowCanvas.relationships # <<>>
    /\ flowCanvas.error = "layout failed"
    /\ flowCanvas.nodes = <<>>

(***************************************************************************)
(* C27: for a non-empty start port p, p is in the port set of the upstream *)
(* and of the downstream half of findCompleteLineage, and when p is        *)
(* declared in some node that node is in the node set of both halves; so   *)
(* neither half of a complete lineage is entirely empty.                   *)
(***************************************************************************)
StartInHalf(half) ==
    /\ call.startId \in half.ports
    /\ call.startId \in DeclaredPorts => OwnerOf(call.startId) \in half.nodes
    /\ half # EmptySets

C27_StartInBothHalves ==
    ReturnedFor("findCompleteLineage") =>
        StartInHalf(call.result.upstream) /\ StartInHalf(call.result.downstream)

\* an input port that nothing leads to and that declares no related port:
\* both halves are the port and its node, and nothing else
C27_Witness ==
    /\ Returned("findCompleteLineage")
    /\ call.startId = "A.in1"
    /\ "A.in1" \in DeclaredInputs
    /\ call.result.upstream = [nodes |-> {"A"}, edges |-> {}, ports |-> {"A.in1"}]
    /\ call.result.downstream = call.result.upstream

(***************************************************************************)
(* C28: in every port-level traversal result the node set is exactly the   *)
(* set of the owning nodes of the declared ports in the result's port set: *)
(* every node of the result owns a port of the result and every declared   *)
(* port of the result has its owning node in the result.                   *)
(***************************************************************************)
OwnersOf(ports) == {OwnerOf(p) : p \in ports \cap DeclaredPorts}

C28_NodesAreOwnersOfPorts ==
    ReturnedFor("findCompleteLineage") =>
        /\ call.result.upstream.nodes = OwnersOf(call.result.upstream.ports)
        /\ call.result.downstream.nodes = OwnersOf(call.result.downstream.ports)

\* A.out1 -> X.ghost followed downstream: the undeclared port is in the
\* port set and brings no node, the node X the relationship names included
C28_Witness ==
    /\ Returned("findCompleteLineage")
    /\ call.startId = "A.out1"
    /\ call.result.downstream.ports = {"A.out1", GhostPort}
    /\ call.result.downstream.nodes = {"A"}
    /\ \E rel \in PortRelationships : rel.targetPort = GhostPort /\ rel.targetNode = "X"

(***************************************************************************)
(* C29: in every port-level traversal result each edge of the edge set     *)
(* belongs to a port relationship whose source port and target port are    *)
(* both in the port set of the same result; upstream the target port of    *)
(* the relationship is an input port, downstream its source port is an     *)
(* output port; a direct relationship never contributes an edge.           *)
(***************************************************************************)
EdgesWithin(half, upstream) ==
    /\ \A e \in half.edges :
           \E rel \in PortRelationships :
               /\ e = "edge-" \o rel.id
               /\ rel.sourcePort \in half.ports
               /\ rel.targetPort \in half.ports
               /\ IF upstream THEN rel.targetPort \in DeclaredInputs
                              ELSE rel.sourcePort \in DeclaredOutputs
    /\ \A rel \in DirectRelationships : "edge-" \o rel.id \notin half.edges

C29_EdgesJoinPortsOfResult ==
    ReturnedFor("findCompleteLineage") =>
        /\ EdgesWithin(call.result.upstream, TRUE)
        /\ EdgesWithin(call.result.downstream, FALSE)

\* A.out1 -> B.in1 beside the direct relationship A -> B: upstream of
\* B.in1 holds the port edge and both its ports, and not the direct edge
C29_Witness ==
    /\ Returned("findCompleteLineage")
    /\ call.startId = "B.in1"
    /\ relationships = SubList(RelCandidates, {1, 7})
    /\ call.result.upstream.edges = {"edge-r1"}
    /\ {"A.out1", "B.in1"} \subseteq call.result.upstream.ports
    /\ "edge-d1" \notin call.result.edges

(***************************************************************************)
(* C30: upstream and downstream column lineage are converse relations over *)
(* the same maps: for all columns c1 and c2, c2 is in the column set of    *)
(* findDownstreamColumnLineage(c1) if and only if c1 is in the column set  *)
(* of findUpstreamColumnLineage(c2).  Checked of the call that returned    *)
(* (c1 or c2 its start) against the calls from every other column.         *)
(***************************************************************************)
ColumnsNamed ==
    (StartColumnIds \ {Null})
        \cup {rel.sourceColumn : rel \in ColumnRelationshipSet}
        \cup {rel.targetColumn : rel \in ColumnRelationshipSet}

ColumnLineageOf(columnId) == runAlone(startCall("findCompleteColumnLineage", columnId)).result

C30_ColumnLineagesAreConverse ==
    ReturnedFor("findCompleteColumnLineage") =>
        \A other \in ColumnsNamed :
            /\ other \in call.result.downstream.columns
                   <=> call.startId \in ColumnLineageOf(other).upstream.columns
            /\ other \in call.result.upstream.columns
                   <=> call.startId \in ColumnLineageOf(other).downstream.columns

\* c0 -> c1 -> c2 and back c2 -> c0: from c1 every column of the cycle is
\* downstream and upstream, and c3 neither
C30_Witness ==
    /\ Returned("findCompleteColumnLineage")
    /\ call.startId = "c1"
    /\ columnRelationships = SubList(ColRelCandidates, {1, 2, 5})
    /\ call.result.downstream.columns = {"c0", "c1", "c2"}
    /\ "c1" \in ColumnLineageOf("c0").upstream.columns
    /\ "c3" \notin call.result.columns

====
